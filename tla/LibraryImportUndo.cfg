SPECIFICATION Spec
CONSTANTS
    MaxImport = 2
    MaxFaults = 3
    MaxKept = 1
    None = None
INVARIANT
    UndoOnlyBeforeSwap
