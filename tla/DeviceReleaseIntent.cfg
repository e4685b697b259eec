SPECIFICATION Spec
CONSTANTS
    MaxImports = 1
    None = None
INVARIANT
    IntentFirst
