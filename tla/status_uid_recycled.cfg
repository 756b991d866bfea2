SPECIFICATION Spec
CONSTANTS
    n1 = n1
    Node = {n1}
    Selected = {n1}
    Restricted = FALSE
    Reason = {"Minted", "Pruned"}
    Staleness = 0
    TTL = 0
    MaxClock = 1
    MaxPosts = 1
    MaxLives = 2
    MaxChaos = 1
INVARIANT NoLeakedObservation
CHECK_DEADLOCK FALSE
