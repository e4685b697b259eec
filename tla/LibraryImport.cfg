SPECIFICATION Spec
CONSTANTS
    MaxImport = 3
    MaxFaults = 2
    MaxKept = 1
    None = None
INVARIANTS
    TypeOK
    AttachedLibrary
    NothingLost
    RecoveryDecides
    SwapNeverBlocked
    NoOrphanFolders
    OpensOwnLibrary
PROPERTIES
    ReplacedTogether
    LiveLibraryKept
