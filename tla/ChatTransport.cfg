SPECIFICATION Spec
CONSTANTS
    Links = {k1, k2}
    Mids = {m1}
    Author <- MCAuthor
    Relay = Relay
    MaxSendAttempts = 2
    MaxOutstanding = 1
    MaxEphemerals = 4
    MaxFaults = 1
    None = None
SYMMETRY LinkSymmetry
CHECK_DEADLOCK FALSE
INVARIANTS
    NoStranded
    ShownOnce
    RetryBudget
