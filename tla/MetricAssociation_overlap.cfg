SPECIFICATION Spec
CONSTANTS
    k1 = k1
    Null = Null
    Keys <- OneKey
    Rules <- OneKeyRules
    MaxGroup = 1
    Blacklists <- NoBlacklist
    Overlap = TRUE
    MaxEdits = 0
INVARIANTS AssociationsCurrent
