CONSTANTS
    NumBanks = 2
    NumVblks = 1
    PagesPerVblk = 2
    SectorsPerPage = 3
    NumBuffers = 1
    Values = {1, 2, 3, 4, 5, 6, 7, 8, 9}
    Erased = 0
    Fills <- MCFills
    Parts <- MCParts
    Targets = {1}
    Copies <- MCCopies
    Initial <- MCInitial
    MaxCalls = 2
    MaxStuck = 1
    MaxResets = 1
SPECIFICATION FairSpec
INVARIANTS
    TypeOK
    DmaOnlyOnLent
    CopiesAgree
PROPERTIES
    DoneMeansDone
    SeemsSynchronous
    CallsEnd
CHECK_DEADLOCK FALSE
