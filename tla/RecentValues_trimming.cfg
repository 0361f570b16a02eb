SPECIFICATION FairSpec
CONSTANTS
    a1 = a1
    a2 = a2
    Keys = {k1}
    Alerts = {a1, a2}
    Criteria <- TwoAlerts
    Values <- SomeValues
    Skew = 1
    MaxTime = 2
    MaxArrivals = 2
    MaxEdits = 4
INVARIANTS TypeOK ValuesRetained JudgesWholeWindow CriteriaAsDescribed
PROPERTIES ValuesTrimmed ActiveAsMet
