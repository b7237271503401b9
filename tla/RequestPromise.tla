--------------------------- MODULE RequestPromise ---------------------------
(***************************************************************************)
(* What clients are promised about their requests: an answer is given only *)
(* to a request that is still open, a read that has been taken is answered *)
(* or given up, and one that is repeated while it waits stays owed after   *)
(* an answer only if a further answer is open. Requests implements this    *)
(* specification.                                                          *)
(***************************************************************************)
EXTENDS Naturals

CONSTANTS
    Requests,    \* what clients ask
    Reads        \* the requests that have to be answered, some of Requests

VARIABLES
    asked,       \* how often a request came
    answered,    \* how often it was answered
    owed         \* reads not answered and not given up

absvars == <<asked, answered, owed>>

Open(r) == answered[r] < asked[r]

Init ==
    /\ asked = [r \in Requests |-> 0]
    /\ answered = [r \in Requests |-> 0]
    /\ owed = {}

AskRead(r) ==
    /\ asked' = [asked EXCEPT ![r] = @ + 1]
    /\ owed' = owed \cup {r}
    /\ UNCHANGED answered

(* A command may take the place of reads that wait. *)
AskCommand(r, gone) ==
    /\ asked' = [asked EXCEPT ![r] = @ + 1]
    /\ owed' = owed \ gone
    /\ UNCHANGED answered

Answer(r) ==
    /\ Open(r)
    /\ answered' = [answered EXCEPT ![r] = @ + 1]
    /\ \/ owed' = owed \ {r}
       \/ UNCHANGED owed /\ Open(r)'
    /\ UNCHANGED asked

GiveUp(gone) ==
    /\ owed' = owed \ gone
    /\ UNCHANGED <<asked, answered>>

Next ==
    \/ \E r \in Reads : AskRead(r)
    \/ \E r \in Requests \ Reads, gone \in SUBSET Reads : AskCommand(r, gone)
    \/ \E r \in Requests : Answer(r)
    \/ \E gone \in SUBSET Reads : GiveUp(gone)

Spec == Init /\ [][Next]_absvars
=============================================================================
