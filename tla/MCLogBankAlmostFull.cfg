CONSTANTS
    Chunks = {1, 2, 3, 4, 5, 6, 7, 8, 9, 10, 11, 12, 13, 14, 15, 16, 17, 18, 19}
    NumBlks = 5
    P = 6
    S = 2
    R = 1
    HotFirst = {0}
    None = None
    HotChunks = {1, 2}
SPECIFICATION FillSpec
VIEW FillView
INVARIANTS
    NewestData
    NoSharedPlace
    NeverHangs
    CountsExact
    WritesReturn
