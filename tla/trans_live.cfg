CONSTANTS
    Installers = {"t"}
    Repairers = {"r"}
    Names <- MCNames
    Versions <- MCVersions
    LocalDbs <- LiveDbs
    Argvs <- LiveArgvs
    Piped <- MCPiped
    Repos <- MCRepos
    SyncDb <- MCSyncDb
    PkgFiles <- MCPkgFiles
    MaxQuestions = 1
    RepairArgs <- MCRepairArgs
    RepairPiped <- MCRepairPiped
    Cache <- MCCache
    PkgArch <- MCPkgArch
    AllowedArch <- MCAllowedArch
    None = None
SPECIFICATION FairSpec
PROPERTY ProgramsEnd
