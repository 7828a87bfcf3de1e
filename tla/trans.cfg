CONSTANTS
    Installers = {"t"}
    Repairers = {"r"}
    Names <- MCNames
    Versions <- MCVersions
    LocalDbs <- MCLocalDbs
    Argvs <- MCArgvs
    Piped <- MCPiped
    Repos <- MCRepos
    SyncDb <- MCSyncDb
    PkgFiles <- MCPkgFiles
    MaxQuestions = 1
    RepairArgs <- MCRepairArgs
    RepairPiped <- MCRepairPiped
    Cache <- MCCache
    PkgArch <- MCPkgArch
    AllowedArch <- MCAllowedArch
    None = None
SPECIFICATION Spec
INVARIANTS
    TypeOK
    LockFreedAtExit
    AppliedWasShown
    AllOrNothing
    RemovalsJustified
    StatusTellsTruth
    RepairIsComplete
PROPERTIES
    ImplementsDbAccess
    RepairOnlyImproves
