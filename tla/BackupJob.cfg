SPECIFICATION Spec
CONSTANTS
    MaxJobs = 2
    Downloads = {d1, d2}
    None = None
SYMMETRY Symmetry
INVARIANTS
    TypeOK
    StopHonoured
    CommitAlone
    LockHolds
    DownloadsAccounted
    DownloadsKept
    AnswersBelong
    ClosingNeverCommits
PROPERTY
    KeyShownOpen
