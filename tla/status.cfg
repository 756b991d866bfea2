SPECIFICATION FairSpec
CONSTANTS
    n1 = n1
    Node = {n1}
    Selected = {n1}
    Restricted = TRUE
    Reason = {"Minted", "Pruned"}
    Staleness = 0
    TTL = 1
    MaxClock = 2
    MaxPosts = 2
    MaxLives = 1
    MaxChaos = 1
INVARIANTS TypeOK CacheIsNewest
PROPERTIES NeverReadyWhileDisabled ReadyIsEarned StatusConverges
CHECK_DEADLOCK FALSE
