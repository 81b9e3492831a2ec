CONSTANTS
    Chunks = {c1, c2}
    NumBlks = 6
    P = 8
    S = 2
    R = 1
    HotFirst = {0, 1}
    None = None
SPECIFICATION Spec
VIEW View
SYMMETRY Symmetry
INVARIANTS
    TypeOK
    NewestData
    NoSharedPlace
    NeverHangs
    CountsExact
    CleanReserve
    OneRole
    ProgramDiscipline
