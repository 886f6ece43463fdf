SPECIFICATION HSpec
CONSTANTS
    p1 = p1
    p2 = p2
    p3 = p3
    io1 = io1
    io2 = io2
    Sched = sched
    Proc = {p1, p2, p3, sched}
    TsList <- MCTsList3
    IoChan = {io1}
    RunOut = RunOut
    RunIn = RunIn
    SwapIo = SwapIo
    NSleepq = 2
    sqhash <- MCsqhash
    MaxPri = 4
    MaxUmd = 0
    MinUpri = 0
    TqExp <- MCTqExp
    SlpRet <- MCSlpRet
    LWait <- MCLWait
    Quantum <- MCQuantum
    MaxWait <- MCMaxWait
    KmdPri <- MCKmdPri
    SysPri <- MCSysPri
    Mortal = {}
    SleepDisp = {"PRIBIO", "PSLEP"}
    PostFlags = {TRUE, FALSE}
    MemLow = {FALSE}
    Garbage = {NoProc}
    NoProc = NoProc
    NoChan = NoChan
INVARIANTS
    SleepqSound
    NoLostWakeup
PROPERTY
    SleepOrderKept
