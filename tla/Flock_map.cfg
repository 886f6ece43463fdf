SPECIFICATION Spec
CONSTANTS
    p1 = p1
    p2 = p2
    p3 = p3
    Proc = {p1, p2}
    File = {1}
    NoProc = NoProc
    MAXEND = 2
    Ranges <- MCRanges
    t_flckrec = 3
SYMMETRY MCSymmetry
INVARIANT
    ListSound
PROPERTY
    Implements
