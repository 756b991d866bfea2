SPECIFICATION FairSpec
CONSTANTS
    u1 = u1
    l1 = l1
    UID = {u1}
    Label = {l1}
    Absent = Absent
    Malformed = Malformed
    NoLabels = NoLabels
    Configs <- OneUserConfigs
    PruneStale = TRUE
    MaxProjects = 2
    MaxCrashes = 1
    MaxChaos = 1
INVARIANTS TypeOK NoSilentOrphan PruneReportIsFinal NoMissedChange
PROPERTIES ForeignUntouched ConfiguredKept ImplementsCaretaker BecomesReady IneligiblePruned
CHECK_DEADLOCK FALSE
