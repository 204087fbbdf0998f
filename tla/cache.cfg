CONSTANTS
    MaxBlock = 6
    BufferSize = 3
    Fid = {f1, f2}
    NoFid = NoFid
    NumTraces = 4
    ReadRanges <- MCReadRanges
    WriteRanges <- MCWriteRanges
    DeleteRanges <- MCDeleteRanges
SPECIFICATION FairHistorySpec
CHECK_DEADLOCK FALSE
INVARIANTS
    CacheTypeOK
    BufferInOrder
    BlocksConserved
    NoPhantomBlocks
    FlushedFilesLeaveCache
    CacheMirrorsBuffer
    ReadYourWrites
PROPERTIES
    WriteEnds
