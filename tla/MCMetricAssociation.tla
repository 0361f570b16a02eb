------------------------ MODULE MCMetricAssociation ------------------------
(* Values for the constants of MetricAssociation. *)
EXTENDS MetricAssociation

CONSTANT k1

OneKey == {k1}
OneKeyRules == SUBSET OneKey
NoBlacklist == {}
FirstGroup == {1}
=============================================================================
