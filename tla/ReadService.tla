---------------------------- MODULE ReadService ----------------------------
(***************************************************************************)
(* What reading the devices behind the links promises: on each link one    *)
(* read is asked at a time, and the value shown for an address changes     *)
(* only when the read that asked for it ends, to a value of the register   *)
(* of that address or back to having none. SerialLink implements this      *)
(* where devices answer in time.                                           *)
(***************************************************************************)
CONSTANTS
    Links,
    Points,      \* pairs of a device and an address of it
    Reads,       \* reads that may be asked
    NoMsg,       \* asks nothing, not in Reads
    Asks(_)      \* the points a read asks for

VARIABLES asked, shown

absvars == <<asked, shown>>

Init ==
    /\ asked = [l \in Links |-> NoMsg]
    /\ shown = [p \in Points |-> 0]

Start(l, m) ==
    /\ asked[l] = NoMsg
    /\ asked' = [asked EXCEPT ![l] = m]
    /\ UNCHANGED shown

GiveUp(l) ==
    /\ asked[l] # NoMsg
    /\ asked' = [asked EXCEPT ![l] = NoMsg]
    /\ UNCHANGED shown

OwnOrNone(p) == {0, p[2]}

Answered(l) ==
    /\ asked[l] # NoMsg
    /\ asked' = [asked EXCEPT ![l] = NoMsg]
    /\ DOMAIN shown' = Points
    /\ \A p \in Points : \/ shown'[p] = shown[p]
                         \/ p \in Asks(asked[l]) /\ shown'[p] \in OwnOrNone(p)

Next == \E l \in Links : \/ \E m \in Reads : Start(l, m)
                         \/ GiveUp(l) \/ Answered(l)

Spec == Init /\ [][Next]_absvars
=============================================================================
