SPECIFICATION SwapFairSpec
CONSTANTS
    p1 = p1
    p2 = p2
    p3 = p3
    io1 = io1
    io2 = io2
    Sched = sched
    Proc = {p1, sched}
    TsList <- MCTsList1
    IoChan = {io1}
    RunOut = RunOut
    RunIn = RunIn
    SwapIo = SwapIo
    NSleepq = 2
    sqhash <- MCsqhash
    MaxPri = 4
    MaxUmd = 1
    MinUpri = 0
    TqExp <- MCTqExp
    SlpRet <- MCSlpRet
    LWait <- MCLWait
    Quantum <- MCQuantum
    MaxWait <- MCMaxWait
    KmdPri <- MCKmdPri
    SysPri <- MCSysPri
    Mortal = {}
    SleepDisp = {"PRIBIO", "PSLEP"}
    PostFlags = {TRUE, FALSE}
    MemLow = {TRUE, FALSE}
    Garbage = {p1, NoProc}
    NoProc = NoProc
    NoChan = NoChan
PROPERTIES
    EventuallyLoaded
