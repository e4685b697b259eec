SPECIFICATION Spec
CONSTANTS
    Procs = {p1, p2}
    Entries = {e1}
    MaxBackups = 1
    MaxKeys = 3
    MaxClock = 2
    MaxCopies = 2
    MaxTemps = 0
    None = None
SYMMETRY Symmetry
INVARIANTS
    NoLostUpdate
CHECK_DEADLOCK FALSE
