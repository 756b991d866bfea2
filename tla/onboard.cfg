SPECIFICATION OSpec
CONSTANTS
    Uid = {3, 4}
    Realm = {A, B}
    Malformed = Malformed
    Absent = Absent
    Unset = Unset
    Range <- Window
    MaxChanges = 1
    Name = 3
    Key = {k1, k2}
    Keyless = Keyless
    Adder = {a1, a2}
    MaxAdds = 2
SYMMETRY Symmetry
INVARIANTS TypeOK StoredFits CleanupAdmitted NeverWithoutSecret FreshAddIsExact
CHECK_DEADLOCK FALSE
