CONSTANTS
    ProgramNames <- MCProgramNames
    Arguments <- MCArguments
    MaxArgs = 4
SPECIFICATION Spec
INVARIANTS
    NoLockIffPrintOnly
    TargetsFollowOperation
    LastAnswerCounts
