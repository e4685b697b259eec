SPECIFICATION FairSpec
CONSTANTS
    MaxJobs = 2
    Downloads = {}
    None = None
PROPERTIES
    JobsEnd
    LockHappens
    CloseHappens
