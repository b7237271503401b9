---------------------------- MODULE MCSerialLink ----------------------------
(***************************************************************************)
(* Instances of SerialLink for TLC.                                        *)
(***************************************************************************)
EXTENDS SerialLink, TLC

CONSTANTS d1, d2, k1, k2

Read(l, d, a) == [kind |-> "read", link |-> l, dev |-> d, addr |-> a]
Write(l, d, a) == [kind |-> "write", link |-> l, dev |-> d, addr |-> a]

(* Batch reads of d1 ask for the registers 3, 4 and 5. *)
WithGap == d1 :> {3, 4, 6}
BatchSingleWrite == {Read(k1, d1, 0), Read(k1, d1, 4), Write(k1, d1, 3)}
OneEach == d1 :> {3}
TwoDevices == d1 :> {3} @@ d2 :> {3}
MuteReads == {Read(k1, d1, 3)}
OtherRead == {Read(k1, d2, 3)}
ReadsOfTwo == MuteReads \cup OtherRead
Raw(l) == [kind |-> "raw", link |-> l, dev |-> d1, addr |-> 0]
OnTwoLinks == MuteReads \cup {Raw(k2)}
=============================================================================
