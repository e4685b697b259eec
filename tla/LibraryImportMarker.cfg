SPECIFICATION Spec
CONSTANTS
    MaxImport = 1
    MaxFaults = 1
    MaxKept = 1
    None = None
INVARIANT
    MarkerGuardsPrevious
