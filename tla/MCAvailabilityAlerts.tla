------------------------ MODULE MCAvailabilityAlerts ------------------------
(* Values for the constants of AvailabilityAlerts. *)
EXTENDS AvailabilityAlerts

PerLevel(caution, danger) == [l \in Levels |-> IF l = "caution" THEN caution ELSE danger]

Windows == PerLevel(1, 2)
Limits == PerLevel(NoTime, 4)

NoKeys == {}
Toggles == {"delete", "disable", "enable"}
AllEdits == EditKinds
NoEdits == {}
=============================================================================
