SPECIFICATION FairSpec
CONSTANTS
    n1 = n1
    n2 = n2
    old = old
    new = new
    cut = cut
    Node = {n1, n2}
    File = {old, new, cut}
    Written <- Written3
    Accepted = {old, new}
    First = old
    NoFile = NoFile
    Timeout = 1
    MaxClock = 1
    MaxChaos = 1
PROPERTIES RestartReachesEveryPod
CHECK_DEADLOCK FALSE
