CONSTANTS
    Window = 3
    InitialBound = 2
    BlockSize = 4
    Offsets <- MCOffsets
    Lengths <- MCLengths
SPECIFICATION HistorySpec
INVARIANTS
    SumIsWindow
    ExactCover
PROPERTY HotAgainstMean
