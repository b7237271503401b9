---------------------------- MODULE MCDataStore ----------------------------
(* Values for TLC: the last day of a December and the first two of January,*)
(* each with two slots; statistics are made in the second tick.            *)
EXTENDS DataStore

MCMonth == <<11, 12, 12>>
MCStatTicks == {1}

=============================================================================
