CONSTANTS
    BandCount = 2
    BandTracks = 3
    Fid = {f1}
    NoFid = NoFid
    Build = "NATIVE_A"
    LSeek = 3
    LTrack = 2
    CMRBands = {0}
    Holes = 1
    FluidHoles = 0
    FluidBatch = 4
SPECIFICATION LoopSpec
CHECK_DEADLOCK FALSE
INVARIANTS
    ExtendAgrees
    RecordAgrees
