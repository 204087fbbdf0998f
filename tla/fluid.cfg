CONSTANTS
    BandCount = 8
    ZoneTracks = 3
    CMRTracks = 2
    ConvPercent = 38
    CacheFloor = 3
    Word = 64
    f1 = f1
    f2 = f2
    Fid = {f1, f2}
    NoFid = NoFid
    FileZero = f2
    Lines <- MCLines
    Leftovers = {31}
    NumTraces = 5
SPECIFICATION FairSpec
CHECK_DEADLOCK FALSE
INVARIANTS
    FluidTypeOK
    RecordsOnDisk
    RemainIsFree
PROPERTIES
    PlacedOrDropped
    CountsWithinRequest
    ConversionKeepsRecords
    CleaningEnds
