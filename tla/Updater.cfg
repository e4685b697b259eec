SPECIFICATION Spec
CONSTANTS
    Procs = {p1, p2}
    Panels = {p1}
    MaxVersion = 3
    MaxFiles = 3
    MaxChecks = 2
    Starts = {1, 2}
    Attempts = 2
    None = None
INVARIANTS
    WorkingCopy
    StopHolds
PROPERTY
    NeverOlder
    BrokenStays
CHECK_DEADLOCK FALSE
