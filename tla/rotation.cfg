SPECIFICATION FairSpec
CONSTANTS
    n1 = n1
    n2 = n2
    old = old
    new = new
    cut = cut
    Node = {n1}
    File = {old, new, cut}
    Written <- Written3
    Accepted = {old, new}
    First = old
    NoFile = NoFile
    Timeout = 1
    MaxClock = 2
    MaxChaos = 2
INVARIANTS TypeOK ParsedAsWritten SuccessIsRecent
CHECK_DEADLOCK FALSE
PROPERTIES KeyReachesNodes KvnoConverges
