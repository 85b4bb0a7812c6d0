SPECIFICATION ConversionSpec
CONSTANTS
    Games <- MCGames
    Title <- MCTitle
    Size <- MCSize
    SystemSize = 0
    DirectCopyLimit = 1
    PartSize = 2
    MaxParts = 2
    EntSize <- MCEntSize
    DotSize = 1
    DirentMax = 2
    BlockSize = 8
    InodesPerBlock = 3
    MinBlocks = 6
    PathEntSize = 17
    ListGap = 2
    PfscHead = 4
    Direct = 8
    SigsPerBlock = 11
    PathHash <- MCPathHash
    SceSys = 10
    EntryNames <- MCEntryNames
    Workers = 2
    SectorsPerBlock = 1
    Keystone <- MCKeystone
    ParamSFO <- MCParamSFO
    EntrySize <- MCEntrySize
    MetaSize = 2
    ChunkDigest = 1
    EntryAlign = 2
    PkgAlign = 16
    BodyOffset = 8
    ChunkSize = 4
    Templates <- MCTemplates
    IsoSizes = {2, 48}
    DiscPath <- MCDisc
    ConfigPath <- MCConfig
    Extras <- MCExtras
    DataSize = 2
INVARIANTS
    GamesAreWhole
    FailedInstallLeavesNothing
    OutputIsWhole
    ReadsBack
    SealsAreFinal
    EntriesFit
