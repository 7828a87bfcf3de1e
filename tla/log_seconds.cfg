CONSTANTS
    None = None
    Callers <- MCCallers
    Whats <- MCWhats
    Logs <- MixedLogs
    Filters <- MCFilters
SPECIFICATION Spec
INVARIANT
    PipeIsIntersection
