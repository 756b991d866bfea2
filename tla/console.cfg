SPECIFICATION Spec
CONSTANTS
    Tenant = {"t1"}
    Principal = {"p1"}
    Node = {"n1"}
    None = None
    Order <- TheOrder
    Parent <- TheParent
    Labels <- TheLabels
    Start <- TheStart
    Limit <- TheLimit
    StableTicks = 2
INVARIANTS TypeOK NoCascadeConflict WaitsForSomething ActsOnChosen PickerInRange
CHECK_DEADLOCK FALSE
PROPERTIES MarkersEnd CatchesUp
