SPECIFICATION FairSpec
CONSTANTS
    MaxImports = 1
    None = None
PROPERTIES
    ReleaseSticks
    ReleaseSettles
