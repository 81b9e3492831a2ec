CONSTANTS
    Blocks <- MCBlocks
    NumNodes <- MCNumNodes
    None = None
SPECIFICATION Spec
INVARIANTS
    TypeOK
    ListShape
    OnlyEmptyHangs
PROPERTY ImplementsFifo
CHECK_DEADLOCK FALSE
