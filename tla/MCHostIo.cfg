SPECIFICATION Spec
CONSTANTS
    NumBanks = 2
    NumLpns = 2
    ChunksPerPage = 3
    ChunksPerRecycledPage = 2
    SectorsPerChunk = 2
    NumWrBuffers = 2
    NumRdBuffers = 2
    nSectsHotThreshold = 5
    OverwriteBit = 16
    Requests <- MCRequests
    MaxWrites = 5
INVARIANTS
    TypeOK
    NewestStored
    ReadsNewest
