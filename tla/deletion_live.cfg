SPECIFICATION FairSpec
CONSTANTS
    n1 = n1
    n2 = n2
    UID = {2}
    Node = {n1, n2}
    Timeout = 1
    MaxClock = 1
    MaxCreates = 1
    MaxFlaps = 1
    MaxRestarts = 0
    MaxChurn = 1
    MaxRefusals = 1
    MaxFaults = 1
PROPERTIES DeletionCompletes EventuallyUnmanaged
CHECK_DEADLOCK FALSE
