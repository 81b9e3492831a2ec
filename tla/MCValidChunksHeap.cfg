CONSTANTS
    NumBlks = 5
    MaxValue = 2
    InitialValue = 2
SPECIFICATION Spec
INVARIANTS
    TypeOK
    PositionsMatch
    HeapOrder
    VictimNearRoot
PROPERTIES
    ImplementsQueue
