SPECIFICATION FairSpec
CONSTANTS
    a = a
    b = b
    c = c
    Principal = {a, b, c}
    UidOf <- UidOf3
    FileOf <- FileOf3
    Selective = {c}
    Bytes = {"k1", "k2"}
    None = "none"
    MaxEdits = 1
    MaxFaults = 1
INVARIANTS TypeOK RowsServedByOwnKeytab
PROPERTIES ValidKept NeverClobbers RosterConverges
