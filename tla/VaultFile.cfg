SPECIFICATION Spec
CONSTANTS
    Procs = {p1, p2}
    Entries = {e1}
    MaxBackups = 1
    MaxKeys = 3
    MaxClock = 2
    MaxCopies = 2
    MaxTemps = 1
    None = None
SYMMETRY Symmetry
INVARIANTS
    AckedOnDisk
    RetiredStaysRetired
    FailedNeverLands
    RecoveryKeyWorks
    PreviousKept
CHECK_DEADLOCK FALSE
