SPECIFICATION Spec
CONSTANTS
    p1 = p1
    p2 = p2
    p3 = p3
    Proc = {p1, p2, p3}
    File = {1}
    NoProc = NoProc
    MAXEND = 1
    Ranges <- MCRangesTwo
    t_flckrec = 6
SYMMETRY MCSymmetry
INVARIANTS
    TypeOK
    SleepersBarred
    NoDeadlock
