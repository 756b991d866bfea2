SPECIFICATION Spec
CONSTANTS
    n1 = n1
    n2 = n2
    UID = {2, 20}
    Node = {n1, n2}
    Timeout = 1
    MaxClock = 1
    MaxCreates = 1
    MaxFlaps = 0
    MaxRestarts = 0
    MaxChurn = 0
    MaxRefusals = 0
    MaxFaults = 0
INVARIANT ConfirmedMeansPurged
CHECK_DEADLOCK FALSE
