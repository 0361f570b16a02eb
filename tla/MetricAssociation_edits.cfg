SPECIFICATION FairSpec
CONSTANTS
    k1 = k1
    Null = Null
    Keys <- OneKey
    Rules <- OneKeyRules
    MaxGroup = 2
    Blacklists <- FirstGroup
    Overlap = FALSE
    MaxEdits = 2
INVARIANTS TypeOK AssociationsCurrent KeysCanExpire
PROPERTIES ChangesApplied KeysProcessed
