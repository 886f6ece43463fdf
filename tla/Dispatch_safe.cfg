SPECIFICATION Spec
CONSTANTS
    p1 = p1
    p2 = p2
    p3 = p3
    io1 = io1
    io2 = io2
    Sched = sched
    Proc = {p1, p2, sched}
    TsList <- MCTsList2
    IoChan = {io1}
    RunOut = RunOut
    RunIn = RunIn
    SwapIo = SwapIo
    NSleepq = 2
    sqhash <- MCsqhash
    MaxPri = 4
    MaxUmd = 1
    MinUpri <- MCMinUpri
    TqExp <- MCTqExp
    SlpRet <- MCSlpRet
    LWait <- MCLWait
    Quantum <- MCQuantumOne
    MaxWait <- MCMaxWait
    KmdPri <- MCKmdPri
    SysPri <- MCSysPri
    Mortal = {p1}
    SleepDisp = {"PSLEP"}
    PostFlags = {TRUE, FALSE}
    MemLow = {TRUE, FALSE}
    Garbage = {p1, p2, NoProc}
    NoProc = NoProc
    NoChan = NoChan
INVARIANTS
    TypeOK
    DispqSound
    CountsAgree
    CurprocSound
    SwapperArmed
    NomineeNotForgotten
    PreemptionPending
PROPERTY
    HighestFirst
