SPECIFICATION Spec
CONSTANTS
    p1 = p1
    p2 = p2
    k1 = k1
    k2 = k2
    Proc = {p1, p2}
    Thread = {}
    NIDS = 2
    NSEMS = 3
    SEMMAP = 3
    SEMMSL = 2
    SEMVMX = 1
    SEMAEM = 1
    SEMUME = 2
    SEMMNU = 1
    Key = {k1, k2}
    IPC_PRIVATE = IPC_PRIVATE
    OpLists <- MCOpLists
    Faults <- MCFaults
    MaxFaults = 1
    RemoveRaces = FALSE
    INT16_MAX = 2
SYMMETRY MCSymmetry
INVARIANTS
    TypeOK
    SetsSound
    SleepersCounted
    NoIdleSleeper
    UndoSound
    AllOrNothing
PROPERTIES
    ExitUndoes
