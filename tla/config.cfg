CONSTANTS
    None = None
    Machine = "x86_64"
    Texts <- MCTexts
    Presets <- MCPresets
    Sysroots <- MCSysroots
    Main = "main"
    MaxOpen = 3
SPECIFICATION FairSpec
INVARIANTS
    TypeOK
    ReadsInPlace
    ConfigMeansText
    PlacesAreTrue
    SigLevelsInherit
    AllUnderSysroot
    ServersResolved
PROPERTIES
    ReadingEnds
