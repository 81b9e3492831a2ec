SPECIFICATION Spec
CONSTANTS
    NumBanks = 2
    NumVblks = 5
    FirstVblk = 1
    LogBlks = 2
    ScanListItems = 3
    Factory <- MCFactory
    OldPages <- MCOldPages
    MaxFails = 1
    MaxEraseFails = 1
    MaxRuns = 3
INVARIANTS
    TypeOK
    BadBlocksKept
    LogBlocksGood
    StampAfterLists
CHECK_DEADLOCK FALSE
