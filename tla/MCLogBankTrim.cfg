CONSTANTS
    Chunks = {c1, c2}
    NumBlks = 5
    P = 6
    S = 2
    R = 1
    HotFirst = {0}
    None = None
    TableBlks = {}
SPECIFICATION TrimSpec
VIEW View
SYMMETRY Symmetry
INVARIANTS
    NeverHangs
