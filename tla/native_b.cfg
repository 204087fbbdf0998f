CONSTANTS
    BandCount = 2
    BandTracks = 3
    Fid = {f1, f2}
    NoFid = NoFid
    Build = "NATIVE_B"
    LSeek = 3
    LTrack = 2
    Format = "csv"
    NumTraces = 5
    ReadRanges <- MCReadRanges
    WriteRanges <- MCWriteRanges
SPECIFICATION Spec
SYMMETRY Symmetry
CHECK_DEADLOCK FALSE
INVARIANTS
    SimulatorTypeOK
    MappingConsistent
    NeverAborts
    WriteHeadCovers
    AccountingAgrees
    CountersMatchBlocks
PROPERTIES
    OwnershipStable
    ShingleRewritten
    NoDoubleRewrite
    ImplementsStore
