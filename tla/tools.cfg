CONSTANTS
    None = None
    Found <- MCFound
    SameLetters <- MCSameLetters
    BadPatterns = {"("}
    Garbage = {0, 2}
    Skips <- MCSkips
    Size = 2
    MaxRetries = 2
    SiftRuns <- MCSiftRuns
    ReportRuns <- MCReportRuns
    CheckRuns <- MCCheckRuns
    RepairRuns <- MCRepairRuns
    SyncRuns <- MCSyncRuns
SPECIFICATION FairSpec
INVARIANTS
    TypeOK
    SiftIsSearch
    UnneededAreUnreached
    ChainsAreOwn
    ScanReportsOnce
    BrokenAreReported
    RepairedAsRecorded
    DownloadsAddUp
PROPERTY ToolsEnd
