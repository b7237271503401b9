----------------------------- MODULE MCRequests -----------------------------
(***************************************************************************)
(* Instances of Requests for TLC.                                          *)
(***************************************************************************)
EXTENDS Requests, TLC

CONSTANT p1

Ask(k, j, i, p) == [kind |-> k, jid |-> j, id |-> i, point |-> p]

(* One client asks for an address twice, with different ids, and repeats   *)
(* the first; others read without the authority, write and command. The    *)
(* address is a switch that goes back by itself.                           *)
Slow == Ask("read", "a", 1, p1)
MCAllowed == {Slow, Ask("read", "a", 2, p1), Ask("write", "a", 3, p1), Ask("remote", "b", 1, p1)}
MCRequests == MCAllowed \cup {Ask("read", "c", 1, p1)}
Twice == [r \in MCRequests |-> IF r = Slow THEN 2 ELSE 1]
=============================================================================
