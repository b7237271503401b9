-------------------------- MODULE CommLinkPool_turns --------------------------
(***************************************************************************)
(* The order in which the threads serve the links, for any number of       *)
(* links, threads and changes: the safety part of Served. m_lastWork is    *)
(* kept as a sequence in CommLinkPool. A link keeps its place before       *)
(* another one until a thread takes it, and a link that is taken goes      *)
(* behind all others: no other link is taken twice while it is ready.      *)
(***************************************************************************)
EXTENDS CommLinkPool_proofs

WasWorked(l) == \E i \in DOMAIN worked : worked[i] = l

(* Of two links that are ready the first one is taken.                     *)
Ahead(l, k) ==
    \/ ~WasWorked(l) /\ (WasWorked(k) \/ l < k)
    \/ \E i, j \in DOMAIN worked : worked[i] = l /\ worked[j] = k /\ i < j

WorkedOnce == \A i, j \in DOMAIN worked : worked[i] = worked[j] => i = j

Takes(w, l) == ~Holds(w, l) /\ Holds(w, l)'

-----------------------------------------------------------------------------
(* Work on a link moves it from its position p, or from beyond the end, to *)
(* the end; those behind it come one nearer.                               *)
Moved(m, p) ==
    LET n == Len(worked)
        end == IF p <= n THEN n ELSE n + 1 IN
    /\ p \in 1 .. n + 1
    /\ p <= n => worked[p] = m
    /\ p = n + 1 => \A i \in 1 .. n : worked[i] # m
    /\ DOMAIN worked' = 1 .. end
    /\ worked'[end] = m
    /\ \A j \in 1 .. end - 1 : worked'[j] = IF j < p THEN worked[j] ELSE worked[j + 1]

LEMMA WorkDoneMoves ==
    ASSUME worked \in Seq(Links), NEW m \in Links, worked' = WorkDone(m)
    PROVE  \E p \in 1 .. Len(worked) + 1 : Moved(m, p)
<1> DEFINE n == Len(worked)
<1>0. n \in Nat /\ DOMAIN worked = 1 .. n
  OBVIOUS
<1>1. CASE \E i \in DOMAIN worked : worked[i] = m
  <2> DEFINE p == CHOOSE i \in DOMAIN worked : worked[i] = m
             s == Without(worked, p)
  <2>1. p \in 1 .. n /\ worked[p] = m
    BY <1>0, <1>1
  <2>2. worked' = Append(s, m)
    BY <1>1 DEF WorkDone
  <2> HIDE DEF p
  <2>3. /\ s \in Seq(Links) /\ DOMAIN s = 1 .. n - 1
        /\ \A j \in 1 .. n - 1 : s[j] = IF j < p THEN worked[j] ELSE worked[j + 1]
    BY <1>0, <2>1, WithoutFacts
  <2> HIDE DEF s
  <2>4. Len(s) = n - 1
    <3>0. \A t \in Seq(Links) : Len(t) \in Nat /\ DOMAIN t = 1 .. Len(t)
      OBVIOUS
    <3>1. Len(s) \in Nat /\ DOMAIN s = 1 .. Len(s)
      BY <2>3, <3>0
    <3>2. \A a, b \in Nat : 1 .. a = 1 .. b => a = b
      <4> SUFFICES ASSUME NEW a \in Nat, NEW b \in Nat, 1 .. a = 1 .. b, a < b
                   PROVE  FALSE
        OBVIOUS
      <4> QED
        OBVIOUS
    <3> HIDE DEF n
    <3>3. n - 1 \in Nat
      BY <1>0, <2>1
    <3> QED
      BY <2>3, <3>1, <3>2, <3>3
  <2>5. /\ DOMAIN worked' = 1 .. n /\ worked'[n] = m
        /\ \A j \in 1 .. n - 1 : worked'[j] = s[j]
    <3>1. \A t \in Seq(Links) :
             /\ DOMAIN Append(t, m) = 1 .. Len(t) + 1
             /\ Append(t, m)[Len(t) + 1] = m
             /\ \A j \in 1 .. Len(t) : Append(t, m)[j] = t[j]
      OBVIOUS
    <3> HIDE DEF n
    <3>2. (n - 1) + 1 = n
      BY <1>0
    <3> QED
      BY <2>2, <2>3, <2>4, <3>1, <3>2
  <2>6. Moved(m, p)
    BY <1>0, <2>1, <2>3, <2>5 DEF Moved
  <2> QED
    BY <1>0, <2>1, <2>6
<1>2. CASE ~ \E i \in DOMAIN worked : worked[i] = m
  <2>1. worked' = Append(worked, m)
    BY <1>2 DEF WorkDone
  <2>2. /\ DOMAIN worked' = 1 .. n + 1 /\ worked'[n + 1] = m
        /\ \A j \in 1 .. n : worked'[j] = worked[j]
    BY <1>0, <2>1
  <2>3. Moved(m, n + 1)
    BY <1>0, <1>2, <2>2 DEF Moved
  <2> QED
    BY <1>0, <2>3
<1> QED
  BY <1>1, <1>2

(* Where the entries are after the move. *)
LEMMA MovedPlaces ==
    ASSUME worked \in Seq(Links), NEW m, NEW p \in 1 .. Len(worked) + 1, Moved(m, p)
    PROVE  \E end \in DOMAIN worked' :
              /\ worked'[end] = m
              /\ \A j \in DOMAIN worked' : j <= end
              /\ \A i \in DOMAIN worked : worked[i] # m =>
                    LET j == IF i < p THEN i ELSE i - 1 IN
                    j \in DOMAIN worked' /\ j < end /\ worked'[j] = worked[i]
              /\ \A j \in DOMAIN worked' : j # end =>
                    LET i == IF j < p THEN j ELSE j + 1 IN
                    i \in DOMAIN worked /\ i # p /\ worked'[j] = worked[i]
<1> DEFINE n == Len(worked)
           end == IF p <= n THEN n ELSE n + 1
<1>1. /\ n \in Nat /\ DOMAIN worked = 1 .. n /\ p \in 1 .. n + 1
      /\ p <= n => worked[p] = m
      /\ DOMAIN worked' = 1 .. end /\ worked'[end] = m
      /\ \A j \in 1 .. end - 1 : worked'[j] = IF j < p THEN worked[j] ELSE worked[j + 1]
  BY DEF Moved
<1> HIDE DEF n
<1>2. end \in 1 .. end /\ \A j \in 1 .. end : j <= end /\ (j # end => j \in 1 .. end - 1)
  BY <1>1
<1>3. ASSUME NEW i \in 1 .. n, worked[i] # m
      PROVE  LET j == IF i < p THEN i ELSE i - 1 IN
             j \in 1 .. end /\ j < end /\ worked'[j] = worked[i]
  <2>1. i # p
    BY <1>1, <1>3
  <2>2. CASE i < p
    BY <1>1, <2>2
  <2>3. CASE i > p
    <3>1. i - 1 \in 1 .. end - 1 /\ ~(i - 1 < p) /\ (i - 1) + 1 = i /\ i - 1 < end
      BY <1>1, <2>3
    <3> QED
      BY <1>1, <2>3, <3>1
  <2> QED
    BY <1>1, <2>1, <2>2, <2>3
<1>4. ASSUME NEW j \in 1 .. end, j # end
      PROVE  LET i == IF j < p THEN j ELSE j + 1 IN
             i \in 1 .. n /\ i # p /\ worked'[j] = worked[i]
  BY <1>1, <1>2, <1>4
<1> QED
  BY <1>1, <1>2, <1>3, <1>4

(* The link worked on is the last one from then on, the others keep their  *)
(* order.                                                                  *)
LEMMA WorkDoneOrder ==
    ASSUME worked \in Seq(Links), NEW m \in Links, worked' = WorkDone(m)
    PROVE  /\ \A l : WasWorked(l)' <=> WasWorked(l) \/ l = m
           /\ \A l : l # m => Ahead(l, m)'
           /\ \A l, k : l # m /\ Ahead(l, k) => Ahead(l, k)'
           /\ WorkedOnce => WorkedOnce'
<1>1. PICK p \in 1 .. Len(worked) + 1 : Moved(m, p)
  BY WorkDoneMoves
<1>2. PICK end \in DOMAIN worked' :
         /\ worked'[end] = m
         /\ \A j \in DOMAIN worked' : j <= end
         /\ \A i \in DOMAIN worked : worked[i] # m =>
               LET j == IF i < p THEN i ELSE i - 1 IN
               j \in DOMAIN worked' /\ j < end /\ worked'[j] = worked[i]
         /\ \A j \in DOMAIN worked' : j # end =>
               LET i == IF j < p THEN j ELSE j + 1 IN
               i \in DOMAIN worked /\ i # p /\ worked'[j] = worked[i]
  BY <1>1, MovedPlaces
<1>3. /\ DOMAIN worked \subseteq Nat /\ DOMAIN worked' \subseteq Nat /\ p \in Nat
      /\ end \in Nat
  BY <1>1 DEF Moved
<1>4. ASSUME NEW l PROVE WasWorked(l)' <=> WasWorked(l) \/ l = m
  <2>1. CASE l = m
    BY <1>2, <2>1 DEF WasWorked
  <2>2. ASSUME l # m, NEW i \in DOMAIN worked, worked[i] = l PROVE WasWorked(l)'
    BY <1>2, <2>2 DEF WasWorked
  <2>3. ASSUME l # m, NEW j \in DOMAIN worked', worked'[j] = l PROVE WasWorked(l)
    BY <1>2, <2>3 DEF WasWorked
  <2> QED
    BY <2>1, <2>2, <2>3 DEF WasWorked
<1>5. ASSUME NEW l, l # m PROVE Ahead(l, m)'
  <2>1. CASE ~WasWorked(l)
    BY <1>4, <1>5, <2>1 DEF Ahead
  <2>2. ASSUME NEW i \in DOMAIN worked, worked[i] = l PROVE Ahead(l, m)'
    <3>1. PICK j \in DOMAIN worked' : j < end /\ worked'[j] = l
      BY <1>2, <1>5, <2>2
    <3> QED
      BY <1>2, <3>1 DEF Ahead
  <2> QED
    BY <2>1, <2>2 DEF WasWorked
<1>6. ASSUME NEW l, NEW k, l # m, Ahead(l, k) PROVE Ahead(l, k)'
  <2>1. CASE k = m
    BY <1>5, <1>6, <2>1
  <2>2. CASE ~WasWorked(l)
    <3>1. WasWorked(k) \/ l < k
      BY <1>6, <2>2 DEF Ahead, WasWorked
    <3> QED
      BY <1>4, <1>6, <2>2, <3>1 DEF Ahead
  <2>3. ASSUME k # m, WasWorked(l) PROVE Ahead(l, k)'
    <3>1. PICK i \in DOMAIN worked, j \in DOMAIN worked :
             worked[i] = l /\ worked[j] = k /\ i < j
      BY <1>6, <2>3 DEF Ahead
    <3> DEFINE x == IF i < p THEN i ELSE i - 1
               y == IF j < p THEN j ELSE j - 1
    <3>2. x \in DOMAIN worked' /\ worked'[x] = l /\ y \in DOMAIN worked' /\ worked'[y] = k
      BY <1>2, <1>6, <2>3, <3>1
    <3>3. x < y
      <4>1. i # p /\ j # p /\ i \in Nat /\ j \in Nat
        <5>1. p \in DOMAIN worked => worked[p] = m
          BY <1>1 DEF Moved
        <5> QED
          BY <1>3, <1>6, <2>3, <3>1, <5>1
      <4> QED
        BY <1>3, <3>1, <4>1
    <3> HIDE DEF x, y
    <3> QED
      BY <3>2, <3>3 DEF Ahead
  <2> QED
    BY <2>1, <2>2, <2>3
<1>7. ASSUME WorkedOnce PROVE WorkedOnce'
  <2> SUFFICES ASSUME NEW x \in DOMAIN worked', NEW y \in DOMAIN worked',
                      worked'[x] = worked'[y], x < y
               PROVE  FALSE
    <3>1. \A x, y \in DOMAIN worked' : x # y => x < y \/ y < x
      BY <1>3
    <3> QED
      BY <3>1 DEF WorkedOnce
  <2> DEFINE i == IF x < p THEN x ELSE x + 1
             j == IF y < p THEN y ELSE y + 1
  <2>1. x # end /\ x \in Nat /\ y \in Nat /\ y <= end
    BY <1>2, <1>3
  <2>2. i \in DOMAIN worked /\ i # p /\ worked'[x] = worked[i]
    BY <1>2, <2>1
  <2>3. CASE y # end
    <3>1. j \in DOMAIN worked /\ worked'[y] = worked[j]
      BY <1>2, <2>3
    <3>2. i # j
      BY <1>3, <2>1
    <3> HIDE DEF i, j
    <3> QED
      BY <1>7, <2>2, <3>1, <3>2 DEF WorkedOnce
  <2>4. CASE y = end
    <3>1. worked[i] = m
      BY <1>2, <2>2, <2>4
    <3>2. p \in DOMAIN worked /\ worked[p] = m
      BY <1>1, <2>2, <3>1 DEF Moved
    <3> HIDE DEF i, j
    <3> QED
      BY <1>7, <2>2, <3>1, <3>2 DEF WorkedOnce
  <2> QED
    BY <2>3, <2>4
<1> QED
  BY <1>4, <1>5, <1>6, <1>7
-----------------------------------------------------------------------------
(* The choice of Run_Proc_Get: the link that is taken was before every     *)
(* other one that the thread could have taken. A link whose configuration  *)
(* has changed, or is being written, is left out, as check_cfg may make it *)
(* ready or not.                                                           *)
CouldTake(w, l) ==
    ~run[l].stale /\ ~BeingWritten(l) /\ Eligible(run[l], w \in Connectors)

LEMMA TurnIsFirst ==
    ASSUME runList \subseteq Nat, worked \in Seq(Links),
           NEW ready \in SUBSET runList, NEW k, IsTurnOf(k, ready),
           NEW l \in ready, l # k
    PROVE  Ahead(k, l)
<1>1. \A x \in ready : x \in Fresh(ready) <=> ~WasWorked(x)
  BY DEF Fresh, WasWorked
<1>2. k \in ready /\ k \in Nat /\ l \in Nat
  BY DEF IsTurnOf
<1>3. CASE Fresh(ready) # {}
  <2>1. k \in Fresh(ready) /\ \A x \in Fresh(ready) : k <= x
    BY <1>3 DEF IsTurnOf, IsFirstOf
  <2>2. ~WasWorked(k) /\ (WasWorked(l) \/ k < l)
    BY <1>1, <1>2, <2>1
  <2> QED
    BY <2>2 DEF Ahead
<1>4. CASE Fresh(ready) = {}
  <2>1. \A i, j \in DOMAIN worked : worked[i] = k /\ worked[j] \in ready => i <= j
    BY <1>4 DEF IsTurnOf
  <2>2. WasWorked(k) /\ WasWorked(l)
    BY <1>1, <1>2, <1>4
  <2>3. PICK i \in DOMAIN worked, j \in DOMAIN worked : worked[i] = k /\ worked[j] = l
    BY <2>2 DEF WasWorked
  <2>4. i <= j /\ i # j
    BY <2>1, <2>3
  <2>5. i < j
    <3>1. DOMAIN worked \subseteq Nat
      OBVIOUS
    <3> QED
      BY <2>4, <3>1
  <2> QED
    BY <2>3, <2>5 DEF Ahead
<1> QED
  BY <1>3, <1>4

(* A thread takes at most one link at a time, and only in Run_Proc_Get.    *)
TakesOne(w, k) ==
    /\ worked' = WorkDone(k)
    /\ worker' = [worker EXCEPT ![w] = [pc |-> "held", link |-> k]]
    /\ \A l \in runList : l # k /\ CouldTake(w, l) => Ahead(k, l)

LEMMA GetTakes ==
    ASSUME TypeOK, NEW w \in Workers, Run_Proc_Get(w)
    PROVE  \/ UNCHANGED <<worked, worker>>
           \/ \E k \in Links : TakesOne(w, k)
<1>1. PICK gone \in SUBSET Links, v \in Views : Scan(w, v, gone)
  BY DEF Run_Proc_Get
<1> DEFINE seen == [l \in Links |-> CheckCfg(run[l], ViewOf(l, v))]
           ready == {l \in runList : Eligible(seen[l], w \in Connectors)}
<1>2. \/ UNCHANGED <<worked, worker>>
      \/ \E k \in ready : /\ IsTurnOf(k, ready)
                          /\ worked' = WorkDone(k)
                          /\ worker' = [worker EXCEPT ![w] = [pc |-> "held", link |-> k]]
  BY <1>1 DEF Scan
<1>3. runList \subseteq Links /\ runList \subseteq Nat
  BY PoolAssumption DEF TypeOK
<1>4. \A l \in runList : CouldTake(w, l) => l \in ready
  BY <1>3 DEF CouldTake, BeingWritten, ViewOf, CheckCfg
<1>5. ready \in SUBSET runList
  OBVIOUS
<1> HIDE DEF seen, ready
<1>6. ASSUME NEW k \in ready, IsTurnOf(k, ready), NEW l \in runList, l # k, CouldTake(w, l)
      PROVE  Ahead(k, l)
  BY <1>3, <1>4, <1>5, <1>6, TurnIsFirst DEF TypeOK
<1>7. ASSUME NEW k \in ready, IsTurnOf(k, ready), worked' = WorkDone(k),
             worker' = [worker EXCEPT ![w] = [pc |-> "held", link |-> k]]
      PROVE  k \in Links /\ TakesOne(w, k)
  BY <1>3, <1>5, <1>6, <1>7 DEF TakesOne
<1> QED
  BY <1>2, <1>7

LEMMA OthersTake ==
    ASSUME TypeOK, [Next]_vars, ~ \E w \in Workers : Run_Proc_Get(w)
    PROVE  /\ UNCHANGED worked
           /\ \A v \in Workers, l \in Links : ~Takes(v, l)
<1>1. worker \in [Workers ->
           [pc : {"get", "held", "opening", "connecting", "data", "release"},
            link : MaybeLinks]]
  BY DEF TypeOK
<1>2. CASE UNCHANGED <<worked, worker>>
  BY <1>2 DEF Takes, Holds
<1>3. ASSUME NEW w \in Workers,
             \/ Prepare(w) \/ StartOpen(w) \/ FinishOpen(w)
             \/ Transfer(w) \/ Run_Proc_Release(w)
      PROVE  /\ UNCHANGED worked
             /\ \A v \in Workers, l \in Links : ~Takes(v, l)
  <2>1. UNCHANGED worked /\ worker[w].pc # "get"
    BY <1>3 DEF Prepare, StartOpen, FinishOpen, Transfer, Run_Proc_Release, poolvars
  <2>2. \/ \E pc : worker' = [worker EXCEPT ![w].pc = pc]
        \/ worker' = [worker EXCEPT ![w] = [pc |-> "get", link |-> NoLink]]
    BY <1>3 DEF Prepare, CloseDisabled, StartConnect, GoOn, StartOpen, FinishOpen,
       Transfer, Run_Proc_Release, Goto
  <2>3. ASSUME NEW v \in Workers, NEW l \in Links, Holds(v, l)' PROVE Holds(v, l)
    BY <1>1, <2>1, <2>2, <2>3 DEF Holds
  <2> QED
    BY <2>1, <2>3 DEF Takes
<1>4. CASE InfoStep
  BY <1>2, <1>4 DEF InfoStep, Run_Info_Get, Run_Info_Release, poolvars
<1>5. CASE EditStep
  BY <1>2, <1>5 DEF EditStep, Cfg_Add, Cfg_Modify, RefreshCfgTs, Run_Reconnect,
     Cfg_Delete, Run_Remove, PushDeleted, poolvars
<1>6. CASE TimeStep
  BY <1>2, <1>6 DEF TimeStep, GrowUp, Silence, Rest, PeerDies, poolvars
<1>7. CASE UNCHANGED vars
  BY <1>2, <1>7 DEF vars, poolvars
<1> QED
  BY <1>3, <1>4, <1>5, <1>6, <1>7 DEF Next, WorkerStep

(* Each step takes one link for one thread, or none.                       *)
LEMMA StepTakes ==
    ASSUME TypeOK, [Next]_vars
    PROVE  \/ UNCHANGED worked /\ \A v \in Workers, l \in Links : ~Takes(v, l)
           \/ \E w \in Workers, k \in Links :
                 /\ worked' = WorkDone(k)
                 /\ Takes(w, k)
                 /\ \A v \in Workers, l \in Links : Takes(v, l) => v = w /\ l = k
                 /\ \A l \in runList : l # k /\ CouldTake(w, l) => Ahead(k, l)
<1>1. CASE ~ \E w \in Workers : Run_Proc_Get(w)
  BY <1>1, OthersTake
<1>2. ASSUME NEW w \in Workers, Run_Proc_Get(w), UNCHANGED <<worked, worker>>
      PROVE  UNCHANGED worked /\ \A v \in Workers, l \in Links : ~Takes(v, l)
  BY <1>2 DEF Takes, Holds
<1>3. ASSUME NEW w \in Workers, Run_Proc_Get(w), NEW k \in Links, TakesOne(w, k)
      PROVE  /\ worked' = WorkDone(k)
             /\ Takes(w, k)
             /\ \A v \in Workers, l \in Links : Takes(v, l) => v = w /\ l = k
             /\ \A l \in runList : l # k /\ CouldTake(w, l) => Ahead(k, l)
  <2>1. worker[w].pc = "get"
    BY <1>3 DEF Run_Proc_Get
  <2>2. /\ worker'[w].pc = "held" /\ worker'[w].link = k
        /\ \A v \in Workers : v # w => worker'[v] = worker[v]
    BY <1>3 DEF TakesOne, TypeOK
  <2>3. /\ Takes(w, k)
        /\ \A v \in Workers, l \in Links : Takes(v, l) => v = w /\ l = k
    BY <2>1, <2>2 DEF Takes, Holds
  <2> QED
    BY <1>3, <2>3 DEF TakesOne
<1> QED
  BY <1>1, <1>2, <1>3, GetTakes

-----------------------------------------------------------------------------
(* The order is one: m_lastWork gives each link one place.                 *)
THEOREM OrderIsStrict ==
    Spec => [](\A l, k \in Links : Ahead(l, k) => ~Ahead(k, l))
<1>1. Init => WorkedOnce
  BY DEF Init, WorkedOnce
<1>2. IInv /\ WorkedOnce /\ [Next]_vars => WorkedOnce'
  <2> SUFFICES ASSUME IInv, WorkedOnce, [Next]_vars PROVE WorkedOnce'
    OBVIOUS
  <2>1. TypeOK /\ worked \in Seq(Links)
    BY DEF IInv, TypeOK
  <2>2. UNCHANGED worked \/ \E k \in Links : worked' = WorkDone(k)
    BY <2>1, StepTakes
  <2>3. CASE UNCHANGED worked
    BY <2>3 DEF WorkedOnce
  <2> QED
    BY <2>1, <2>2, <2>3, WorkDoneOrder
<1>3. IInv /\ WorkedOnce => \A l, k \in Links : Ahead(l, k) => ~Ahead(k, l)
  <2> SUFFICES ASSUME IInv, WorkedOnce, NEW l \in Links, NEW k \in Links,
                      Ahead(l, k), Ahead(k, l)
               PROVE  FALSE
    OBVIOUS
  <2>1. l \in Nat /\ k \in Nat /\ DOMAIN worked \subseteq Nat
    BY PoolAssumption DEF IInv, TypeOK
  <2>2. WasWorked(l) /\ WasWorked(k)
    BY <2>1 DEF Ahead, WasWorked
  <2>3. PICK i \in DOMAIN worked, j \in DOMAIN worked :
           worked[i] = l /\ worked[j] = k /\ i < j
    BY <2>2 DEF Ahead
  <2>4. PICK x \in DOMAIN worked, y \in DOMAIN worked :
           worked[x] = k /\ worked[y] = l /\ x < y
    BY <2>2 DEF Ahead
  <2>5. x = j /\ y = i
    BY <2>3, <2>4 DEF WorkedOnce
  <2> QED
    BY <2>1, <2>3, <2>4, <2>5
<1> QED
  BY <1>1, <1>2, <1>3, Invariance, PTL DEF Spec

(* A link that waits keeps its place: it comes before another one until a  *)
(* thread takes it, whatever else happens.                                 *)
THEOREM PlacesAreKept ==
    Spec => [][\A l, k \in Links :
                  Ahead(l, k) /\ (\A w \in Workers : ~Takes(w, l)) => Ahead(l, k)']_vars
<1> DEFINE Kept == \A l, k \in Links :
                      Ahead(l, k) /\ (\A w \in Workers : ~Takes(w, l)) => Ahead(l, k)'
<1>1. IInv /\ [Next]_vars => [Kept]_vars
  <2> SUFFICES ASSUME IInv, [Next]_vars, NEW l \in Links, NEW k \in Links,
                      Ahead(l, k), \A w \in Workers : ~Takes(w, l)
               PROVE  Ahead(l, k)'
    OBVIOUS
  <2>1. TypeOK /\ worked \in Seq(Links)
    BY DEF IInv, TypeOK
  <2>2. UNCHANGED worked \/ \E m \in Links : m # l /\ worked' = WorkDone(m)
    BY <2>1, StepTakes
  <2>3. CASE UNCHANGED worked
    BY <2>3 DEF Ahead, WasWorked
  <2> QED
    BY <2>1, <2>2, <2>3, WorkDoneOrder
<1> QED
  BY <1>1, Invariance, PTL DEF Spec

(* Run_Proc_Get overtakes nobody: the link it takes was before every other *)
(* link the thread could have taken, and is behind all of them afterwards. *)
(* So no link is taken twice while another one could be taken.             *)
THEOREM NoOvertaking ==
    Spec => [][\A w \in Workers, k, l \in Links :
                  Takes(w, k) /\ l # k
                  => /\ l \in runList /\ CouldTake(w, l) => Ahead(k, l)
                     /\ Ahead(l, k)']_vars
<1> DEFINE Fair == \A w \in Workers, k, l \in Links :
                      Takes(w, k) /\ l # k
                      => /\ l \in runList /\ CouldTake(w, l) => Ahead(k, l)
                         /\ Ahead(l, k)'
<1>1. IInv /\ [Next]_vars => [Fair]_vars
  <2> SUFFICES ASSUME IInv, [Next]_vars, NEW w \in Workers, NEW k \in Links,
                      NEW l \in Links, Takes(w, k), l # k
               PROVE  /\ l \in runList /\ CouldTake(w, l) => Ahead(k, l)
                      /\ Ahead(l, k)'
    OBVIOUS
  <2>1. TypeOK /\ worked \in Seq(Links)
    BY DEF IInv, TypeOK
  <2>2. /\ worked' = WorkDone(k)
        /\ \A x \in runList : x # k /\ CouldTake(w, x) => Ahead(k, x)
    BY <2>1, StepTakes
  <2> QED
    BY <2>1, <2>2, WorkDoneOrder
<1> QED
  BY <1>1, Invariance, PTL DEF Spec
=============================================================================
