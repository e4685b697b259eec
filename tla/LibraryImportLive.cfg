SPECIFICATION FairSpec
CONSTANTS
    MaxImport = 2
    MaxFaults = 2
    MaxKept = 1
    None = None
PROPERTY
    ImportedLibraryOpens
