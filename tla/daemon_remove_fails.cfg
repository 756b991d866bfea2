SPECIFICATION FairSpec
CONSTANTS
    u1 = u1
    l1 = l1
    UID = {u1}
    Label = {l1}
    Absent = Absent
    Malformed = Malformed
    NoLabels = NoLabels
    Configs <- OneUserConfigs
    PruneStale = TRUE
    MaxProjects = 1
    MaxCrashes = 0
    MaxChaos = 1
PROPERTIES MintedThenIneligiblePruned
CHECK_DEADLOCK FALSE
