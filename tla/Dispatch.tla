------------------------------ MODULE Dispatch ------------------------------
(***************************************************************************)
(* The processor of SVR4: process switching (disp/disp.c), sleep and       *)
(* wakeup (os/slp.c), the time-sharing class (disp/ts.c), the system class *)
(* (disp/sysclass.c), the memory scheduler (os/sched.c) and the clock's    *)
(* calls into them (os/clock.c).                                           *)
(*                                                                         *)
(* The kernel runs one process at a time and is not preemptive: a process  *)
(* in the kernel keeps the processor until it sleeps, exits or passes the  *)
(* preemption test of its return to user mode.  What interleaves with it   *)
(* is interrupts, wherever the interrupt level lets them in.               *)
(*                                                                         *)
(* Signals, stops and /proc are not part of this module:                    *)
(* no process here is stopped, and no signal is ever pending.              *)
(***************************************************************************)
EXTENDS DispQueue

CONSTANTS
    Sched,     \* proc_sched, the memory scheduler: class SYS, flag SSYS
    TsList,    \* ts_plisthead: the time-sharing processes, in list order
    IoChan,    \* channels of events a process waits for: a buffer's B_DONE ...
    RunOut, RunIn, SwapIo,   \* &runout, &runin, and the swap device's buffer
    NSleepq,   \* number of sleep queues
    sqhash,    \* channel -> sleep queue; distinct channels may share one
    MaxUmd,    \* ts_maxumdpri
    MinUpri,   \* lowest ts_upri priocntl() is asked for (0 is the highest)
    TqExp, SlpRet, LWait,    \* the columns of ts_dptbl used below
    Quantum, MaxWait,
    KmdPri,    \* sleep's disp argument -> p_pri, for the time-sharing class
    SysPri,    \* sleep's disp argument -> p_pri, for the system class
    Mortal,    \* the processes that may exit
    SleepDisp, \* the disp arguments processes sleep with
    PostFlags, \* whether their wakeups may be non-preemptive
    MemLow,    \* outcomes of "freemem <= tune.t_gpgslo" that can happen
    Garbage,   \* what sched()'s justloaded can be before it is first assigned
    NoProc, NoChan

Ts == Proc \ {Sched}
Umd == 0 .. MaxUmd
Disp == {"PSWP", "PRIBIO", "PSLEP"}
Chan == IoChan \cup {RunOut, RunIn, SwapIo}
Stat == {"SRUN", "SONPROC", "SSLEEP", "SZOMB"}
Place == {"user", "kern", "wait", "biowait", "trapret",
          "loop", "swapin", "swapout", "unload"}

ASSUME DispatchAssumption ==
    /\ IsFiniteSet(Proc) /\ Sched \in Proc /\ NoProc \notin Proc /\ NoChan \notin Chan
    /\ TsList \in Seq(Ts) /\ ToSet(TsList) = Ts /\ IsInjective(TsList)
    /\ RunOut \notin IoChan /\ RunIn \notin IoChan \cup {RunOut}
    /\ SwapIo \notin IoChan \cup {RunOut, RunIn}
    /\ NSleepq \in Nat /\ sqhash \in [Chan -> 0 .. NSleepq - 1]
    /\ MaxUmd \in Nat /\ MaxUmd <= MaxPri /\ MinUpri \in Int /\ MinUpri <= 0
    /\ TqExp \in [Umd -> Umd] /\ SlpRet \in [Umd -> Umd] /\ LWait \in [Umd -> Umd]
    /\ Quantum \in [Umd -> Nat \ {0}] /\ MaxWait \in [Umd -> Nat]
    /\ KmdPri \in [Disp -> Pri] /\ SysPri \in [Disp -> Pri]
    /\ SleepDisp \subseteq {"PRIBIO", "PSLEP"} /\ PostFlags \subseteq BOOLEAN
    /\ Mortal \subseteq Ts /\ MemLow \subseteq BOOLEAN
    /\ Garbage \subseteq Ts \cup {NoProc}

VARIABLES
    p_stat, p_pri, p_wchan,   \* fields of the proc structures
    sload,                    \* processes with SLOAD on
    dq,                       \* the dispatcher queues
    sleepq,                   \* the sleep queues
    curproc, curpri, runrun, npwakecnt, runin, runout,
    cpupri, upri, timeleft, dispwait,   \* fields of the tsproc structures
    tskpri, tsbackq,          \* processes with TSKPRI, TSBACKQ on
    done,                     \* the events that have happened
    pc,                       \* where each process is in its program
    want,                     \* the event a process in its wait loop wants
    nominee, justloaded,      \* locals of sched()
    cpu,                      \* what the processor is doing, see below
    isr                       \* the splhi loop in progress, see below

procVars  == << p_stat, p_pri, p_wchan, sload >>
queueVars == << dq, sleepq >>
cpuVars   == << curproc, curpri, runrun, npwakecnt >>
swapVars  == << runin, runout, nominee, justloaded >>
tsVars    == << cpupri, upri, timeleft, dispwait, tskpri, tsbackq >>
progVars  == << done, pc, want >>
vars == << procVars, queueVars, cpuVars, swapVars, tsVars, progVars, cpu, isr >>

(***************************************************************************)
(* cpu is "run" (curproc executes, interrupts enabled), "runhi" (the same  *)
(* at splhi), "preempt" (preempt() has called CL_PREEMPT and pswtch() has  *)
(* not begun), "swtchlo" (pswtch() has changed p_stat and not yet called   *)
(* splhi), "swtch" (in pswtch() at splhi) or "idle" (in idle()).           *)
(*                                                                         *)
(* isr is a loop that runs at splhi, one iteration a step: wakeprocs()     *)
(* over a sleep queue, or ts_update() over the time-sharing processes.     *)
(* Nothing else happens until it is over.                                  *)
(***************************************************************************)
CpuState == {"run", "runhi", "preempt", "swtchlo", "swtch", "idle"}
IsrState == [op : {"none", "wakeprocs", "ts_update"}, chan : Chan \cup {NoChan},
             noprmpt : BOOLEAN, runsched : BOOLEAN, i : Nat]
NoIsr == [op |-> "none", chan |-> NoChan, noprmpt |-> FALSE,
          runsched |-> FALSE, i |-> 0]
Wakeprocs(ch, np) == [NoIsr EXCEPT !.op = "wakeprocs", !.chan = ch, !.noprmpt = np]
TsUpdate == [NoIsr EXCEPT !.op = "ts_update", !.i = 1]

InterruptsOn == isr = NoIsr /\ cpu \in {"run", "preempt", "swtchlo", "idle"}
Running(p) == isr = NoIsr /\ cpu = "run" /\ curproc = p
InSched(where) ==
    isr = NoIsr /\ cpu \in {"run", "runhi"} /\ curproc = Sched /\ pc[Sched] = where

\* The flags half of the test (p_flag & (SLOAD|SPROCIO)) == SLOAD || SSYS.
Schedulable == sload \cup {Sched}

\* A queued process whose priority changes from old to new moves to the back of
\* the other queue: dispdeq() while p_pri is the old one, setbackdq() after.
\* Seeded fault Requeue_late: the priority changes before dispdeq() looks.
Requeue_late(d, p, old, new) ==
    setbackdq(dispdeq(d, p, new, p \in Schedulable), p, new, p \in Schedulable)
Requeue(d, p, old, new) ==
    setbackdq(dispdeq(d, p, old, p \in Schedulable), p, new, p \in Schedulable)

\* TS_NEWUMDPRI; the global priority of user level n is n.
\* Seeded fault umdpri_unclamped: without the test for a negative level.
umdpri_unclamped(cp, up) == IF cp + up > MaxUmd THEN MaxUmd ELSE cp + up
umdpri(cp, up) == IF cp + up > MaxUmd THEN MaxUmd
                  ELSE IF cp + up < 0 THEN 0 ELSE cp + up

Init ==
    \E i \in DOMAIN TsList : LET first == TsList[i] IN
        /\ p_stat = [p \in Proc |-> IF p = first THEN "SONPROC" ELSE "SRUN"]
        /\ p_pri = [p \in Proc |-> IF p = Sched THEN SysPri["PSWP"] ELSE MaxUmd]
        /\ p_wchan = [p \in Proc |-> NoChan]
        /\ sload = Proc
        /\ dq = setbackdq(dispinit(MaxUmd, RemoveAt(TsList, i)),
                          Sched, SysPri["PSWP"], TRUE)
        /\ sleepq = [b \in 0 .. NSleepq - 1 |-> << >>]
        /\ curproc = first /\ curpri = MaxUmd
        /\ runrun = TRUE /\ npwakecnt = FALSE
        /\ runin = FALSE /\ runout = FALSE
        /\ cpupri = [p \in Ts |-> MaxUmd] /\ upri = [p \in Ts |-> 0]
        /\ timeleft = [p \in Ts |-> Quantum[MaxUmd]]
        /\ dispwait = [p \in Ts |-> 0]
        /\ tskpri = {} /\ tsbackq = {}
        /\ done = IoChan \cup {SwapIo}
        /\ pc = [p \in Proc |-> IF p = Sched THEN "loop" ELSE "user"]
        /\ want = [p \in Proc |-> NoChan]
        /\ nominee = NoProc /\ justloaded \in Garbage
        /\ cpu = "run" /\ isr = NoIsr

-----------------------------------------------------------------------------
(* disp.c: preempt() and pswtch().                                         *)

\* Whether ts_preempt() takes the branches of TSBACKQ.
\* Seeded fault GoesBack_never: the flag is ignored.
GoesBack_never(p) == FALSE
GoesBack(p) == p \in tsbackq

\* preempt() up to its call of swtch(): CL_PREEMPT of the time-sharing class.
\* curproc is on a dispatcher queue from here on, and still SONPROC.
ts_preempt(p) ==
    /\ cpu' = "preempt"
    /\ IF GoesBack(p)
       THEN /\ dq' = setbackdq(dq, p, p_pri[p], p \in Schedulable)
            /\ tsbackq' = tsbackq \ {p}
            /\ IF p \in tskpri
               THEN UNCHANGED << timeleft, dispwait >>
               ELSE /\ timeleft' = [timeleft EXCEPT ![p] =
                                      Quantum[umdpri(cpupri[p], upri[p])]]
                    /\ dispwait' = [dispwait EXCEPT ![p] = 0]
       ELSE /\ dq' = setfrontdq(dq, p, p_pri[p], p \in Schedulable)
            /\ UNCHANGED << tsbackq, timeleft, dispwait >>
    /\ UNCHANGED << procVars, sleepq, cpuVars, swapVars, cpupri, upri, tskpri,
                    done, want, isr >>

\* pswtch() before its splhi().
PswtchEnter ==
    /\ isr = NoIsr /\ cpu = "preempt"
    /\ p_stat' = [p_stat EXCEPT ![curproc] = "SRUN"]
    /\ cpu' = "swtchlo"
    /\ UNCHANGED << p_pri, p_wchan, sload, queueVars, cpuVars, swapVars, tsVars,
                    progVars, isr >>

\* pswtch() finds nothing to run and calls idle().
PswtchIdle ==
    /\ isr = NoIsr /\ cpu \in {"swtchlo", "swtch"}
    /\ dq.max = -1
    /\ cpu' = "idle" /\ curproc' = Sched /\ curpri' = 0
    /\ UNCHANGED << procVars, queueVars, runrun, npwakecnt, swapVars, tsVars,
                    progVars, isr >>

\* pswtch() takes the first schedulable process of the highest queue.
PswtchPick(p) ==
    /\ isr = NoIsr /\ cpu \in {"swtchlo", "swtch", "idle"}
    /\ dq.max # -1
    /\ IsFirst(dq, Schedulable, p)
    /\ runrun' = FALSE /\ npwakecnt' = FALSE
    /\ dq' = dispdeq(dq, p, dq.max, TRUE)
    /\ p_stat' = [p_stat EXCEPT ![p] = "SONPROC"]
    /\ curpri' = p_pri[p] /\ curproc' = p
    /\ cpu' = "run"
    /\ UNCHANGED << p_pri, p_wchan, sload, sleepq, swapVars, tsVars, progVars, isr >>

-----------------------------------------------------------------------------
(* slp.c: sleep(), wakeprocs() and setrun().                               *)

\* p is unlinked from the sleep queue s.
\* Seeded fault Drop_head: the head of the queue is unlinked instead.
Drop_head(s, p) == Tail(s)
Drop(s, p) == RemoveAt(s, CHOOSE i \in DOMAIN s : s[i] = p)

\* sleep() by the memory scheduler, whose priorities are all below PZERO, up
\* to the end of its swtch().
SchedSleep(ch, disp) ==
    /\ p_stat' = [p_stat EXCEPT ![Sched] = "SSLEEP"]
    /\ p_wchan' = [p_wchan EXCEPT ![Sched] = ch]
    /\ p_pri' = [p_pri EXCEPT ![Sched] = SysPri[disp]]
    /\ sleepq' = [sleepq EXCEPT ![sqhash[ch]] = Append(@, Sched)]
    /\ cpu' = "swtch"

\* sleep() by a time-sharing process p.  At an interruptible priority it also
\* wakes the memory scheduler if that waits for a process to swap out.
TsSleep(p, ch, disp) ==
    LET rouse == disp = "PSLEP" /\ runin
        sq == [sleepq EXCEPT ![sqhash[ch]] = Append(@, p)]
    IN  /\ IF rouse
           THEN /\ p_stat' = [p_stat EXCEPT ![p] = "SSLEEP", ![Sched] = "SRUN"]
                /\ p_wchan' = [p_wchan EXCEPT ![p] = ch, ![Sched] = NoChan]
                /\ sleepq' = [sq EXCEPT ![sqhash[RunIn]] = Drop(@, Sched)]
                /\ dq' = setbackdq(dq, Sched, p_pri[Sched], TRUE)
                /\ runin' = FALSE
                /\ runrun' = (runrun \/ p_pri[Sched] > curpri)
           ELSE /\ p_stat' = [p_stat EXCEPT ![p] = "SSLEEP"]
                /\ p_wchan' = [p_wchan EXCEPT ![p] = ch]
                /\ sleepq' = sq
                /\ UNCHANGED << dq, runin, runrun >>
        /\ p_pri' = [p_pri EXCEPT ![p] = KmdPri[disp]]
        /\ tskpri' = tskpri \cup {p}
        /\ cpu' = "swtch"
        /\ UNCHANGED << sload, curproc, curpri, npwakecnt, runout, nominee,
                        justloaded, cpupri, upri, timeleft, dispwait, tsbackq >>

\* setrun(proc_sched), called with proc_sched asleep or already runnable.
SetrunSched ==
    IF p_stat[Sched] = "SRUN"
    THEN UNCHANGED << p_stat, p_wchan, sleepq, dq, runrun >>
    ELSE /\ p_stat' = [p_stat EXCEPT ![Sched] = "SRUN"]
         /\ p_wchan' = [p_wchan EXCEPT ![Sched] = NoChan]
         /\ sleepq' = [sleepq EXCEPT ![sqhash[p_wchan[Sched]]] = Drop(@, Sched)]
         /\ dq' = setbackdq(dq, Sched, p_pri[Sched], TRUE)
         /\ runrun' = (runrun \/ p_pri[Sched] > curpri)

\* The process woken is out of memory, and proc_sched waits for such a one.
\* Seeded fault WantsSched_never: wakeprocs() leaves that to the clock.
WantsSched_never(p) == FALSE
WantsSched(p) == p \notin sload /\ runout

\* wakeprocs() has come to the end of the sleep queue.
\* Seeded fault NoneLeft_early: it stops before the end of the queue.
NoneLeft_early(ch) == TRUE
NoneLeft(ch) ==
    \A i \in DOMAIN sleepq[sqhash[ch]] : p_wchan[sleepq[sqhash[ch]][i]] # ch

\* wakeprocs() at p, the first process still linked that sleeps on the channel.
WakeOne(p) ==
    LET s == sleepq[sqhash[isr.chan]]
    IN  /\ isr.op = "wakeprocs"
        /\ \E i \in DOMAIN s : /\ s[i] = p
                               /\ p_wchan[p] = isr.chan
                               /\ \A j \in 1 .. i - 1 : p_wchan[s[j]] # isr.chan
        /\ sleepq' = [sleepq EXCEPT ![sqhash[isr.chan]] = Drop(@, p)]
        /\ p_wchan' = [p_wchan EXCEPT ![p] = NoChan]
        /\ p_stat' = [p_stat EXCEPT ![p] = "SRUN"]
        /\ npwakecnt' = (npwakecnt \/ isr.noprmpt)
        /\ tsbackq' = tsbackq \ {p}
        /\ dq' = setbackdq(dq, p, p_pri[p], p \in Schedulable)
        /\ isr' = [isr EXCEPT !.runsched = @ \/ WantsSched(p)]
        /\ runrun' =
              (runrun \/ (p \in sload /\ p_pri[p] > curpri /\ ~ isr.noprmpt))
    /\ UNCHANGED << p_pri, sload, curproc, curpri, swapVars, cpupri, upri,
                    timeleft, dispwait, tskpri, progVars, cpu >>

\* The end of wakeprocs().
WakeEnd ==
    /\ isr.op = "wakeprocs"
    /\ NoneLeft(isr.chan)
    /\ isr' = NoIsr
    /\ IF isr.runsched
       THEN runout' = FALSE /\ SetrunSched
       ELSE UNCHANGED << runout, p_stat, p_wchan, sleepq, dq, runrun >>
    /\ UNCHANGED << p_pri, sload, curproc, curpri, npwakecnt, runin, nominee,
                    justloaded, tsVars, progVars, cpu >>

-----------------------------------------------------------------------------
(* Interrupts: devices and the clock.                                      *)

\* A device finishes: biodone(), which sets B_DONE and wakes the sleepers.
IoDone(ch) ==
    /\ InterruptsOn
    /\ ch \notin done
    /\ done' = done \cup {ch}
    /\ isr' = Wakeprocs(ch, FALSE)
    /\ UNCHANGED << procVars, queueVars, cpuVars, swapVars, tsVars, pc, want, cpu >>

\* clock() on a tick that finds curproc SONPROC: CL_TICK, that is ts_tick().
\* timeleft stops at -1: below 0 nothing looks at it until it is reset.
Tick ==
    LET p == curproc
        cp == TqExp[cpupri[p]]
        u == umdpri(cp, upri[p])
        wasonq == OnQueue(dq, p, p_pri[p])
    IN  /\ InterruptsOn
        /\ p # Sched /\ p_stat[p] = "SONPROC" /\ p \notin tskpri
        /\ IF timeleft[p] # 1
           THEN /\ timeleft' = [timeleft EXCEPT ![p] = IF @ > 0 THEN @ - 1 ELSE -1]
                /\ UNCHANGED << cpupri, p_pri, curpri, dispwait, dq, tsbackq, runrun >>
           ELSE /\ cpupri' = [cpupri EXCEPT ![p] = cp]
                /\ p_pri' = [p_pri EXCEPT ![p] = u]
                /\ curpri' = u
                /\ dispwait' = [dispwait EXCEPT ![p] = 0]
                /\ runrun' = TRUE
                /\ IF wasonq
                   THEN /\ timeleft' = [timeleft EXCEPT ![p] = Quantum[u]]
                        /\ dq' = Requeue(dq, p, p_pri[p], u)
                        /\ UNCHANGED tsbackq
                   ELSE /\ timeleft' = [timeleft EXCEPT ![p] = 0]
                        /\ tsbackq' = tsbackq \cup {p}
                        /\ UNCHANGED dq
    /\ UNCHANGED << p_stat, p_wchan, sload, sleepq, curproc, npwakecnt, swapVars,
                    upri, tskpri, progVars, cpu, isr >>

\* clock() once a second: a memory scheduler that waits for something to swap
\* out is set running; so is one that waits for something to swap in when
\* memory is low or the swap queue is not empty.
SwapQueue == {p \in Proc \ sload : p_stat[p] \in {"SRUN", "SONPROC"}}

\* Seeded fault SchedDue_noin: the wait for something to swap out is forgotten.
SchedDue_noin(low) == (low \/ SwapQueue # {}) /\ runout
SchedDue(low) == runin \/ ((low \/ SwapQueue # {}) /\ runout)

\* Seeded fault EverySecond_keep: runin is not reset.
EverySecond_keep(low) ==
    /\ InterruptsOn
    /\ SchedDue(low)
    /\ runout' = (runout /\ ~ low /\ SwapQueue = {})
    /\ SetrunSched
    /\ UNCHANGED << p_pri, sload, curproc, curpri, npwakecnt, runin, nominee,
                    justloaded, tsVars, progVars, cpu, isr >>
EverySecond(low) ==
    /\ InterruptsOn
    /\ SchedDue(low)
    /\ runin' = FALSE
    /\ runout' = (runout /\ ~ low /\ SwapQueue = {})
    /\ SetrunSched
    /\ UNCHANGED << p_pri, sload, curproc, curpri, npwakecnt, nominee, justloaded,
                    tsVars, progVars, cpu, isr >>

\* The timeout that runs ts_update(), once a second.
UpdateBegin ==
    /\ InterruptsOn
    /\ isr' = TsUpdate
    /\ UNCHANGED << procVars, queueVars, cpuVars, swapVars, tsVars, progVars, cpu >>

\* ts_update() at the i-th process of the list.
UpdateOne ==
    LET p == TsList[isr.i]
        cp == LWait[cpupri[p]]
        u == umdpri(cp, upri[p])
        wasonq == OnQueue(dq, p, p_pri[p])
    IN  /\ isr.op = "ts_update" /\ isr.i <= Len(TsList)
        /\ isr' = [isr EXCEPT !.i = @ + 1]
        /\ IF p \in tskpri \/ p_stat[p] \notin {"SRUN", "SONPROC"}
           THEN UNCHANGED << p_pri, dq, curpri, cpupri, timeleft, dispwait, tsbackq >>
           ELSE IF dispwait[p] < MaxWait[umdpri(cpupri[p], upri[p])]
           THEN /\ dispwait' = [dispwait EXCEPT ![p] = @ + 1]
                /\ UNCHANGED << p_pri, dq, curpri, cpupri, timeleft, tsbackq >>
           ELSE /\ cpupri' = [cpupri EXCEPT ![p] = cp]
                /\ dispwait' = [dispwait EXCEPT ![p] = 0]
                /\ p_pri' = [p_pri EXCEPT ![p] = u]
                /\ curpri' = IF p = curproc THEN u ELSE curpri
                /\ IF wasonq
                   THEN /\ timeleft' = [timeleft EXCEPT ![p] = Quantum[u]]
                        /\ dq' = Requeue(dq, p, p_pri[p], u)
                        /\ UNCHANGED tsbackq
                   ELSE /\ tsbackq' = tsbackq \cup {p}
                        /\ UNCHANGED << timeleft, dq >>
    /\ UNCHANGED << p_stat, p_wchan, sload, sleepq, curproc, runrun, npwakecnt,
                    swapVars, upri, tskpri, progVars, cpu >>

UpdateEnd ==
    /\ isr.op = "ts_update" /\ isr.i > Len(TsList)
    /\ runrun' = TRUE
    /\ isr' = NoIsr
    /\ UNCHANGED << procVars, queueVars, curproc, curpri, npwakecnt, swapVars,
                    tsVars, progVars, cpu >>

-----------------------------------------------------------------------------
(* Time-sharing processes.                                                 *)

\* A user process enters the kernel.
Syscall(p) ==
    /\ Running(p) /\ pc[p] = "user"
    /\ pc' = [pc EXCEPT ![p] = "kern"]
    /\ UNCHANGED << procVars, queueVars, cpuVars, swapVars, tsVars, done, want,
                    cpu, isr >>

\* The kernel half of p starts an operation on ch, or joins one that may be in
\* progress, and goes to wait for it: in biowait(), which holds SSWLOCKS and
\* sleeps at PRIBIO, or at an interruptible priority.
Request(p, ch, start, disp) ==
    /\ Running(p) /\ pc[p] = "kern"
    /\ done' = IF start THEN done \ {ch} ELSE done
    /\ pc' = [pc EXCEPT ![p] = IF disp = "PRIBIO" THEN "biowait" ELSE "wait"]
    /\ want' = [want EXCEPT ![p] = ch]
    /\ UNCHANGED << procVars, queueVars, cpuVars, swapVars, tsVars, cpu, isr >>

\* The loop around sleep() that biowait() and its like are written as: the
\* test and the sleep are at one interrupt level.
WaitLoop(p) ==
    /\ Running(p) /\ pc[p] \in {"wait", "biowait"}
    /\ IF want[p] \in done
       THEN /\ pc' = [pc EXCEPT ![p] = "kern"]
            /\ want' = [want EXCEPT ![p] = NoChan]
            /\ UNCHANGED << procVars, queueVars, cpuVars, swapVars, tsVars, cpu >>
       ELSE /\ TsSleep(p, want[p], IF pc[p] = "biowait" THEN "PRIBIO" ELSE "PSLEP")
            /\ UNCHANGED << pc, want >>
    /\ UNCHANGED << done, isr >>

\* The kernel half of p completes ch for others, with wakeprocs() preemptive
\* or, as between the reader and the writer of a pipe, non-preemptive.
Post(p, ch, noprmpt) ==
    /\ Running(p) /\ pc[p] = "kern"
    /\ done' = done \cup {ch}
    /\ isr' = Wakeprocs(ch, noprmpt)
    /\ UNCHANGED << procVars, queueVars, cpuVars, swapVars, tsVars, pc, want, cpu >>

\* priocntl(PC_SETPARMS) by p on q: ts_parmsset().
ts_parmsset(p, q, new) ==
    LET u == umdpri(cpupri[q], new)
        wasonq == OnQueue(dq, q, p_pri[q])
    IN  /\ Running(p) /\ pc[p] = "kern" /\ p_stat[q] # "SZOMB"
        /\ upri' = [upri EXCEPT ![q] = new]
        /\ IF q \in tskpri
           THEN UNCHANGED << dispwait, p_pri, curpri, timeleft, tsbackq, runrun, dq >>
           ELSE /\ dispwait' = [dispwait EXCEPT ![q] = 0]
                /\ p_pri' = [p_pri EXCEPT ![q] = u]
                /\ curpri' = IF q = curproc THEN u ELSE curpri
                /\ IF q = curproc
                   THEN /\ IF u > dq.max
                           THEN /\ timeleft' = [timeleft EXCEPT ![q] = Quantum[u]]
                                /\ UNCHANGED << tsbackq, runrun >>
                           ELSE /\ tsbackq' = tsbackq \cup {q}
                                /\ runrun' = TRUE
                                /\ UNCHANGED timeleft
                        /\ UNCHANGED dq
                   ELSE IF wasonq
                   THEN /\ runrun' = (runrun \/ u > curpri)
                        /\ timeleft' = [timeleft EXCEPT ![q] = Quantum[u]]
                        /\ dq' = Requeue(dq, q, p_pri[q], u)
                        /\ UNCHANGED tsbackq
                   ELSE /\ tsbackq' = tsbackq \cup {q}
                        /\ UNCHANGED << timeleft, dq, runrun >>
    /\ UNCHANGED << p_stat, p_wchan, sload, sleepq, curproc, npwakecnt, swapVars,
                    cpupri, tskpri, progVars, cpu, isr >>

\* The exit from the kernel to user mode, in systrap() and u_trap(): the
\* preemption test, and after it CL_TRAPRET.
TrapExit(p) ==
    /\ Running(p) /\ pc[p] = "kern"
    /\ runrun
    /\ pc' = [pc EXCEPT ![p] = "trapret"]
    /\ ts_preempt(p)
    /\ UNCHANGED << done, want >>

\* ts_trapret() leaves the process at priority u below a runnable one.
\* Seeded fault MustYield_never: runrun is not set there.
MustYield_never(u) == FALSE
MustYield(u) == ~ npwakecnt /\ u < dq.max

ts_trapret(p) ==
    LET cp == SlpRet[cpupri[p]]
        u == umdpri(cp, upri[p])
    IN  /\ Running(p)
        /\ pc[p] = "trapret" \/ (pc[p] = "kern" /\ ~ runrun)
        /\ pc' = [pc EXCEPT ![p] = "user"]
        /\ IF p \notin tskpri
           THEN UNCHANGED << cpupri, tskpri, p_pri, curpri, timeleft, dispwait, runrun >>
           ELSE /\ cpupri' = [cpupri EXCEPT ![p] = cp]
                /\ tskpri' = tskpri \ {p}
                /\ p_pri' = [p_pri EXCEPT ![p] = u]
                /\ curpri' = u
                /\ timeleft' = [timeleft EXCEPT ![p] = Quantum[u]]
                /\ dispwait' = [dispwait EXCEPT ![p] = 0]
                /\ runrun' = (runrun \/ MustYield(u))
    /\ UNCHANGED << p_stat, p_wchan, sload, queueVars, curproc, npwakecnt, swapVars,
                    upri, tsbackq, done, want, cpu, isr >>

\* s_trap(): called on the way back to user mode when runrun is set.
s_trap(p) ==
    /\ Running(p) /\ pc[p] = "user"
    /\ runrun
    /\ ts_preempt(p)
    /\ UNCHANGED progVars

\* exit() as the dispatcher sees it.
Exit(p) ==
    /\ Running(p) /\ pc[p] = "kern" /\ p \in Mortal
    /\ p_stat' = [p_stat EXCEPT ![p] = "SZOMB"]
    /\ cpu' = "swtchlo"
    /\ UNCHANGED << p_pri, p_wchan, sload, queueVars, cpuVars, swapVars, tsVars,
                    progVars, isr >>

-----------------------------------------------------------------------------
(* sched(): the memory scheduler.                                          *)

Before(p, q) == \E i, j \in DOMAIN TsList : i < j /\ TsList[i] = p /\ TsList[j] = q

\* ts_swapin()'s nominee: the runnable unloaded process of highest priority,
\* the first of them in list order.
SwapinNominee(p) ==
    LET out == {q \in Ts \ sload : p_stat[q] = "SRUN"}
    IN  /\ p \in out
        /\ \A q \in out \ {p} :
               p_pri[q] < p_pri[p] \/ (p_pri[q] = p_pri[p] /\ Before(p, q))

SomeNominee == \E p \in Ts \ sload : p_stat[p] = "SRUN"
SomeRunnable == \E p \in Ts \cap sload : p_stat[p] = "SRUN"

\* ts_swapout()'s nominee: the sleeping process of lowest priority, the first
\* of them in list order; if none sleeps, the first runnable one in the list.
\* SSWLOCKS, held in biowait(), keeps a process in memory.
SwapoutNominee(p) ==
    LET in == {q \in Ts \cap sload :
                  p_stat[q] # "SZOMB" /\ pc[q] # "biowait" /\ q # justloaded}
        asleep == {q \in in : p_stat[q] = "SSLEEP"}
        ready == {q \in in : p_stat[q] = "SRUN"}
    IN  IF asleep # {}
        THEN /\ p \in asleep
             /\ \A q \in asleep \ {p} :
                    p_pri[p] < p_pri[q] \/ (p_pri[p] = p_pri[q] /\ Before(p, q))
        ELSE p \in ready /\ \A q \in ready \ {p} : Before(p, q)

\* SLOAD goes on or off in a process that may be on a dispatcher queue.
CountIn(p) == IF p_stat[p] = "SRUN" THEN dq_sruninc(dq, p_pri[p]) ELSE dq
\* Seeded fault CountOut_none: the count keeps a process swapped out.
CountOut_none(p) == dq
CountOut(p) == IF p_stat[p] = "SRUN" THEN dq_srundec(dq, p_pri[p]) ELSE dq

\* Nobody to load and memory is there: wait for somebody.
SchedWaitOut(low) ==
    /\ InSched("loop") /\ ~ SomeNominee /\ ~ low
    /\ runout' = TRUE
    /\ SchedSleep(RunOut, "PSWP")
    /\ UNCHANGED << sload, dq, cpuVars, runin, nominee, justloaded, tsVars, progVars,
                    isr >>

\* Somebody to load, and memory for it or nobody else to run.
SchedSwapin(p, low) ==
    /\ InSched("loop") /\ SwapinNominee(p)
    /\ ~ low \/ ~ SomeRunnable
    /\ nominee' = p /\ justloaded' = NoProc
    /\ done' = done \ {SwapIo}
    /\ pc' = [pc EXCEPT ![Sched] = "swapin"]
    /\ UNCHANGED << procVars, queueVars, cpuVars, runin, runout, tsVars, want, cpu, isr >>

\* Memory is low, and nobody to load, where justloaded is what an earlier turn has
\* left there, or others to run meanwhile.
SchedUnload(low) ==
    /\ InSched("loop") /\ low
    /\ SomeNominee => SomeRunnable
    /\ justloaded' = IF SomeNominee THEN NoProc ELSE justloaded
    /\ pc' = [pc EXCEPT ![Sched] = "unload"]
    /\ cpu' = "runhi"
    /\ UNCHANGED << procVars, queueVars, cpuVars, runin, runout, nominee, tsVars, done,
                    want, isr >>

\* swapinub() and swapout() wait for the swap device.
SchedIo ==
    /\ InSched("swapin") \/ InSched("swapout")
    /\ SwapIo \notin done
    /\ SchedSleep(SwapIo, "PRIBIO")
    /\ UNCHANGED << sload, dq, cpuVars, swapVars, tsVars, progVars, isr >>

\* swapinub() returns and the nominee is loaded, or is not.
SchedLoaded(ok, low) ==
    /\ InSched("swapin") /\ SwapIo \in done
    /\ IF ok
       THEN /\ sload' = sload \cup {nominee}
            /\ dq' = CountIn(nominee)
       ELSE UNCHANGED << sload, dq >>
    /\ nominee' = NoProc
    /\ IF ok /\ ~ low
       THEN /\ pc' = [pc EXCEPT ![Sched] = "loop"]
            /\ UNCHANGED << justloaded, cpu >>
       ELSE /\ justloaded' = IF ok THEN nominee ELSE justloaded
            /\ pc' = [pc EXCEPT ![Sched] = "unload"]
            /\ cpu' = "runhi"
    /\ UNCHANGED << p_stat, p_pri, p_wchan, sleepq, cpuVars, runin, runout, tsVars,
                    done, want, isr >>

\* "unload:" with a nominee: it is unloaded before the swap begins.
SchedSwapout(p) ==
    /\ InSched("unload") /\ SwapoutNominee(p)
    /\ sload' = sload \ {p}
    /\ dq' = CountOut(p)
    /\ nominee' = p
    /\ done' = done \ {SwapIo}
    /\ pc' = [pc EXCEPT ![Sched] = "swapout"]
    /\ cpu' = "run"
    /\ UNCHANGED << p_stat, p_pri, p_wchan, sleepq, cpuVars, runin, runout, justloaded,
                    tsVars, want, isr >>

\* swapout() succeeded: look again.
SchedUnloaded ==
    /\ InSched("swapout") /\ SwapIo \in done
    /\ nominee' = NoProc
    /\ pc' = [pc EXCEPT ![Sched] = "loop"]
    /\ UNCHANGED << procVars, queueVars, cpuVars, runin, runout, justloaded, tsVars,
                    done, want, cpu, isr >>

\* swapout() failed, and the nominee is loaded again; or nobody was nominated.
\* Wait a second.
SchedWaitIn ==
    /\ \/ /\ InSched("swapout") /\ SwapIo \in done
          /\ sload' = sload \cup {nominee}
          /\ dq' = CountIn(nominee)
       \/ /\ InSched("unload") /\ ~ \E p \in Ts : SwapoutNominee(p)
          /\ UNCHANGED << sload, dq >>
    /\ nominee' = NoProc
    /\ pc' = [pc EXCEPT ![Sched] = "loop"]
    /\ runin' = TRUE
    /\ SchedSleep(RunIn, "PSWP")
    /\ UNCHANGED << cpuVars, runout, justloaded, tsVars, done, want, isr >>

-----------------------------------------------------------------------------
ProcessStep(p) ==
    \/ Syscall(p)
    \/ \E ch \in IoChan :
           \/ \E start \in BOOLEAN, disp \in SleepDisp : Request(p, ch, start, disp)
           \/ \E np \in PostFlags : Post(p, ch, np)
    \/ WaitLoop(p)
    \/ \E q \in Ts, new \in MinUpri .. 0 : ts_parmsset(p, q, new)
    \/ TrapExit(p) \/ ts_trapret(p) \/ s_trap(p)
    \/ Exit(p)

SchedStep ==
    \/ \E low \in MemLow :
           \/ SchedWaitOut(low) \/ SchedUnload(low)
           \/ \E p \in Ts : SchedSwapin(p, low)
           \/ \E ok \in BOOLEAN : SchedLoaded(ok, low)
    \/ SchedIo \/ SchedUnloaded \/ SchedWaitIn
    \/ \E p \in Ts : SchedSwapout(p)

SwitchStep == PswtchEnter \/ PswtchIdle \/ \E p \in Proc : PswtchPick(p)

LoopStep == (\E p \in Proc : WakeOne(p)) \/ WakeEnd \/ UpdateOne \/ UpdateEnd

Interrupt ==
    \/ \E ch \in IoChan \cup {SwapIo} : IoDone(ch)
    \/ Tick \/ UpdateBegin
    \/ \E low \in MemLow : EverySecond(low)

Next == (\E p \in Ts : ProcessStep(p)) \/ SchedStep \/ SwitchStep \/ LoopStep \/ Interrupt

Spec == Init /\ [][Next]_vars

(***************************************************************************)
(* Fairness.  At splhi nothing disturbs a loop (WF).  Interrupts take time *)
(* but leave some: the code that has the processor, be it a process, the   *)
(* memory scheduler or pswtch(), goes on between them (SF).  It comes to   *)
(* the end of its system call, and in user mode it meets the preemption    *)
(* test of the interrupts that return to it.  A device finishes what it    *)
(* was given and the clock ticks; an interrupt that is masked stays        *)
(* pending until it is let in (SF).  The last conjunct is an assumption on *)
(* time: ts_update(), which runs once a second and puts those it boosts at *)
(* the back of their queues, does not hit the instructions between         *)
(* CL_PREEMPT and pswtch()'s splhi for ever.                               *)
(***************************************************************************)
CodeStep == (\E p \in Ts : ProcessStep(p)) \/ SchedStep \/ SwitchStep
ReturnToUser == \E p \in Ts : TrapExit(p) \/ ts_trapret(p) \/ s_trap(p)

Fairness ==
    /\ WF_vars(LoopStep)
    /\ SF_vars(CodeStep) /\ SF_vars(ReturnToUser)
    /\ \A ch \in IoChan : SF_vars(IoDone(ch))
    /\ SF_vars(Tick) /\ SF_vars(UpdateBegin)
    /\ <>[][UpdateBegin => cpu \in {"run", "idle"}]_vars

\* The same of swapping: its device, the clock's call, and memory that does
\* not run out under every swapin.
SwapFairness ==
    /\ SF_vars(IoDone(SwapIo))
    /\ \A low \in MemLow : SF_vars(EverySecond(low))
    /\ SF_vars(\E low \in MemLow : SchedLoaded(TRUE, low))

FairSpec == Spec /\ Fairness
SwapFairSpec == Spec /\ Fairness /\ SwapFairness

-----------------------------------------------------------------------------
TypeOK ==
    /\ p_stat \in [Proc -> Stat]
    /\ p_pri \in [Proc -> Pri]
    /\ p_wchan \in [Proc -> Chan \cup {NoChan}]
    /\ sload \subseteq Proc
    /\ dq \in Dispq
    /\ sleepq \in [0 .. NSleepq - 1 -> Seq(Proc)]
    /\ curproc \in Proc /\ curpri \in Pri
    /\ runrun \in BOOLEAN /\ npwakecnt \in BOOLEAN
    /\ runin \in BOOLEAN /\ runout \in BOOLEAN
    /\ cpupri \in [Ts -> Umd] /\ upri \in [Ts -> MinUpri .. 0]
    /\ timeleft \in [Ts -> Int] /\ dispwait \in [Ts -> Nat]
    /\ tskpri \subseteq Ts /\ tsbackq \subseteq Ts
    /\ done \subseteq Chan
    /\ pc \in [Proc -> Place]
    /\ want \in [Proc -> Chan \cup {NoChan}]
    /\ nominee \in Ts \cup {NoProc} /\ justloaded \in Ts \cup {NoProc}
    /\ cpu \in CpuState
    /\ isr \in IsrState

\* A process is linked on a dispatcher queue at most once, on the queue of the
\* priority it has now; those linked are the runnable processes, and the one
\* that preempt() is switching away from.
DispqSound ==
    /\ Distinct(dq)
    /\ \A p \in Proc :
           /\ OnQueue(dq, p, p_pri[p]) <=>
                  p_stat[p] = "SRUN" \/ (cpu = "preempt" /\ p = curproc)
           /\ \A k \in Pri : OnQueue(dq, p, k) => k = p_pri[p]

\* The counts and the bitmap agree with the queues and with the flags of the
\* processes linked on them, whatever is swapped, re-queued or preempted.
CountsAgree == Counted(dq, Schedulable)

\* A process is linked on the sleep queue of its channel, once, exactly while
\* it sleeps: wakeprocs(), setrun() and sleep() leave nobody behind.
SleepqSound ==
    /\ \A b, c \in DOMAIN sleepq : \A i \in DOMAIN sleepq[b], j \in DOMAIN sleepq[c] :
           sleepq[b][i] = sleepq[c][j] => b = c /\ i = j
    /\ \A p \in Proc :
           /\ p_stat[p] = "SSLEEP" <=> p_wchan[p] # NoChan
           /\ \A b \in DOMAIN sleepq :
                  (\E i \in DOMAIN sleepq[b] : sleepq[b][i] = p) <=>
                      p_wchan[p] # NoChan /\ b = sqhash[p_wchan[p]]

\* While curproc executes it is the one process on the processor, it is in
\* memory, and curpri is its priority: neither the clock nor the memory
\* scheduler nor priocntl() changes them apart.
CurprocSound ==
    cpu \in {"run", "runhi", "preempt"} =>
        /\ \A p \in Proc : p_stat[p] = "SONPROC" <=> p = curproc
        /\ curpri = p_pri[curproc]
        /\ curproc \in Schedulable

\* No wakeup is lost: nobody sleeps for an event that has happened.
NoLostWakeup ==
    isr = NoIsr => \A p \in Proc : p_wchan[p] \notin done

\* runout and runin say what the memory scheduler sleeps for; setrun() panics
\* on a process that is running.
SwapperArmed ==
    /\ runout <=> p_wchan[Sched] = RunOut
    /\ runin <=> p_wchan[Sched] = RunIn

\* The memory scheduler does not sleep for want of a nominee while there is
\* one: a process made runnable while it is out wakes the scheduler.
NomineeNotForgotten ==
    isr = NoIsr /\ p_wchan[Sched] = RunOut => ~ SomeNominee

\* When something better than curproc is runnable, the preemption test of its
\* return to user mode will fail, unless the wakeup asked for no preemption.
PreemptionPending ==
    isr = NoIsr /\ cpu = "run" /\ dq.max > curpri => runrun \/ npwakecnt

\* The processor is not given to a process while a schedulable one of higher
\* priority is runnable.
HighestFirst ==
    [][\A p \in Proc : p_stat[p] # "SONPROC" /\ p_stat'[p] = "SONPROC" =>
           \A q \in Schedulable : p_stat[q] = "SRUN" => p_pri[q] <= p_pri[p]]_vars

\* A runnable process gets the processor in the end: time slices and the boost
\* of ts_update() keep a process that computes from starving another.
EventuallyRuns ==
    \A p \in Ts : p_stat[p] = "SRUN" ~> p_stat[p] # "SRUN"

\* A sleeper is woken: its event happens in the end, and wakeprocs() finds it.
SleepersWake ==
    \A p \in Ts : p_wchan[p] # NoChan ~> p_wchan[p] = NoChan

\* A runnable process that was swapped out is swapped in.
EventuallyLoaded ==
    \A p \in Ts : p_stat[p] = "SRUN" /\ p \notin sload ~> p \in sload
=============================================================================
