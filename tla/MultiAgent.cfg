SPECIFICATION Spec
CONSTANTS
    root = root
    a = a
    b = b
    c1 = c1
    c2 = c2
    s1 = s1
    s2 = s2
SYMMETRY Symmetry
INVARIANTS
    OutputsOnce
    SlotsShared
    AllAccounted
