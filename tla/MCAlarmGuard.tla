---------------------------- MODULE MCAlarmGuard ----------------------------
(* Values for TLC: two triggers, heard by a link each, or the first by both*)
(* links. An alarm of the first disarms the box and then does something    *)
(* else; one of the second disarms the first trigger.                      *)
EXTENDS AlarmGuard, TLC

CONSTANTS l1, l2, t1, t2, e1, e2, e3

MCHearOne == (l1 :> {t1}) @@ (l2 :> {t2})
MCHearAll == (l1 :> {t1}) @@ (l2 :> {t1})
MCNeeded == (t1 :> 2) @@ (t2 :> 1)
MCTriggerOf == (e1 :> t1) @@ (e2 :> t1) @@ (e3 :> t2)
MCDoes == (e1 :> {[what |-> AllDevices, to |-> FALSE]}) @@ (e2 :> {}) @@
          (e3 :> {[what |-> t1, to |-> FALSE]})
MCAsked == {[on |-> TRUE, level |-> 1, force |-> FALSE],
            [on |-> TRUE, level |-> 2, force |-> TRUE]}
MCOldRows == [e \in Events |->
                IF e = e2 THEN {[on |-> TRUE, level |-> 1, force |-> FALSE]}
                ELSE IF e = e1 THEN {[on |-> TRUE, level |-> 2, force |-> FALSE]}
                ELSE {}]

=============================================================================
