SPECIFICATION Spec
CONSTANTS
    t1 = t1
    t2 = t2
    t3 = t3
    s1 = s1
    s2 = s2
    a1 = a1
    a2 = a2
    Thread = {t1, t2, t3}
    Space = {s1, s2}
    as <- MCas
    Addr = {a1}
    Value = {0, 1}
    NoThread = NoThread
    NoAddr = NoAddr
INVARIANTS
    TypeOK
    ListSound
    CalloutSound
    NoLostWake
PROPERTY
    KeepsPromise
