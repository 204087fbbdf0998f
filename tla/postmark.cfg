CONSTANTS
    BandCount = 2
    BandTracks = 3
    Fid = {f1, f2}
    NoFid = NoFid
    Build = "FLUIDSMR"
    LSeek = 3
    LTrack = 2
    Format = "postmark"
    NumTraces = 4
    ReadRanges <- MCReadRanges
    WriteRanges <- MCWriteRanges
SPECIFICATION Spec
SYMMETRY Symmetry
CHECK_DEADLOCK FALSE
INVARIANTS
    ServedInFull
PROPERTIES
    ShingleRewritten
