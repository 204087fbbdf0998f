CONSTANTS
    BandCount = 3
    BandTracks = 3
    Fid <- MCFid
    NoFid = NoFid
    Build = "HYBRID"
    LSeek = 0
    LTrack = 1
    Window = 2
    CMRTracks = 2
    Percentage = 67
    CountModulus = 16
    NumTraces = 1
    Garbage <- MCGarbage
    SkipBound = 1
    ReadRanges <- MCReadRanges
    WriteRanges <- MCWriteRanges
SPECIFICATION Spec
CHECK_DEADLOCK FALSE
INVARIANTS
    CountIsCurrent
