--------------------------- MODULE MCRecentValues ---------------------------
(* Values for the constants of RecentValues. *)
EXTENDS RecentValues, TLC

CONSTANTS a1, a2

Crit(window, operator, combination, count, threshold) ==
    [window |-> window, operator |-> operator, combination |-> combination,
     count |-> count, threshold |-> threshold, minimum |-> count]

\* The average of the two is half a unit below zero.
SomeValues == {-2, 1}

\* One alert needs the key's values for longer than the other, at one level.
TwoAlerts ==
    (a1 :> ("caution" :> Crit(2, ">=", "at least", 2, -2) @@
            "danger"  :> Crit(1, "=", "average", 1, -1))) @@
    (a2 :> ("caution" :> Crit(1, "<", "any", 1, 1) @@
            "danger"  :> Crit(1, ">=", "at most", 1, 1)))

=============================================================================
