--------------------------- MODULE MCCommLinkPool ---------------------------
(***************************************************************************)
(* Instances of CommLinkPool for TLC. A link that is not in the database   *)
(* at the start can be added by Cfg_Add.                                   *)
(***************************************************************************)
EXTENDS CommLinkPool, TLC

CONSTANTS a1, a2, w1, w2

On(a) == [enable |-> TRUE, addr |-> a]

OneStored == 1 :> On(a1)
TwoStored == 1 :> On(a1) @@ 2 :> On(a2)
=============================================================================
