CONSTANTS
    None = None
    Callers <- MCCallers
    Whats <- MCWhats
    Logs <- MCLogs
    Filters <- MCFilters
SPECIFICATION Spec
INVARIANTS
    EntriesAreComplete
    PipeIsIntersection
    PkgListIsReplay
