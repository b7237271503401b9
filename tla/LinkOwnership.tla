--------------------------- MODULE LinkOwnership ---------------------------
(***************************************************************************)
(* What the link manager promises its worker threads: a link is worked on  *)
(* by at most one thread at a time, a retired link is never handed out     *)
(* again and is retired only while nobody works on it, and the connection  *)
(* of a link is opened only by a connecting thread that owns the link and  *)
(* closed only by the owner or by the retirement of the link.              *)
(* CommLinkPool implements this specification.                             *)
(***************************************************************************)
CONSTANTS
    Links,       \* links that exist during the run of the program
    Workers,     \* communication threads
    Connectors,  \* the threads that may open connections, some of Workers
    Addrs,       \* addresses a link can be connected to
    NoOwner,     \* owner of a link nobody works on, not in Workers
    NoAddr       \* connection of a link that is closed, not in Addrs

VARIABLES owner, conn, retired

absvars == <<owner, conn, retired>>

Unowned(links) == \A l \in links : owner[l] = NoOwner

(* Links that are retired lose their connection. *)
Closed(gone) == [l \in Links |-> IF l \in gone THEN NoAddr ELSE conn[l]]

Init ==
    /\ owner = [l \in Links |-> NoOwner]
    /\ conn = [l \in Links |-> NoAddr]
    /\ retired = {}

(* The links in gone are retired, nobody works on them. *)
Retire(gone) ==
    /\ Unowned(gone)
    /\ retired' = retired \cup gone
    /\ conn' = Closed(gone)
    /\ UNCHANGED owner

(* w, which owns nothing, becomes the owner of l; the search for l may    *)
(* retire other links.                                                     *)
Acquire(w, l, gone) ==
    /\ \A k \in Links : owner[k] # w
    /\ owner[l] = NoOwner
    /\ l \notin retired \cup gone
    /\ Unowned(gone)
    /\ owner' = [owner EXCEPT ![l] = w]
    /\ retired' = retired \cup gone
    /\ conn' = Closed(gone)

Release(l) ==
    /\ owner' = [owner EXCEPT ![l] = NoOwner]
    /\ UNCHANGED <<conn, retired>>

Open(l, a) ==
    /\ owner[l] \in Connectors
    /\ conn[l] = NoAddr
    /\ conn' = [conn EXCEPT ![l] = a]
    /\ UNCHANGED <<owner, retired>>

Close(l) ==
    /\ owner[l] \in Workers
    /\ conn' = [conn EXCEPT ![l] = NoAddr]
    /\ UNCHANGED <<owner, retired>>

Next ==
    \/ \E gone \in SUBSET Links : Retire(gone)
    \/ \E w \in Workers, l \in Links, gone \in SUBSET Links : Acquire(w, l, gone)
    \/ \E l \in Links : Release(l) \/ Close(l)
    \/ \E l \in Links, a \in Addrs : Open(l, a)

Spec == Init /\ [][Next]_absvars
=============================================================================
