SPECIFICATION Spec
CONSTANTS
    n1 = n1
    n2 = n2
    UID = {2, 31}
    Node = {n1, n2}
    Timeout = 1
    MaxClock = 1
    MaxCreates = 1
    MaxFlaps = 0
    MaxRestarts = 1
    MaxChurn = 0
    MaxRefusals = 1
    MaxFaults = 1
INVARIANTS TypeOK ConfirmedMeansPurged
CHECK_DEADLOCK FALSE
