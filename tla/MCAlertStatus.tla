--------------------------- MODULE MCAlertStatus ---------------------------
(* Values for the constants of AlertStatus. *)
EXTENDS AlertStatus

Off == [on |-> FALSE, window |-> 1]
On(window) == [on |-> TRUE, window |-> window]

Config(type, caution, danger) ==
    [type |-> type, crit |-> [l \in Levels |-> IF l = "caution" THEN caution ELSE danger]]

BothTypes == {Config("threshold", On(1), On(2)), Config("availability", On(1), On(2))}
BothLevels == {Config("threshold", On(1), On(2))}
DangerChanges == {Config("threshold", On(1), On(2)), Config("threshold", On(1), On(1))}

NoOps == {}
AckOps == {"ack"}
FormOps == {"form"}
ManualOps == {"ack", "delete", "form", "toggle"}
TemplateOps == {"ack", "template"}
=============================================================================
