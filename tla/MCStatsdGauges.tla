--------------------------- MODULE MCStatsdGauges ---------------------------
(* Values for the constants of StatsdGauges. *)
EXTENDS StatsdGauges

CONSTANT l1

OneListener == {l1}
Add == {[set |-> FALSE, value |-> 1]}
SetAndAdd == Add \cup {[set |-> TRUE, value |-> 5]}
=============================================================================
