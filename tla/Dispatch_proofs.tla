--------------------------- MODULE Dispatch_proofs ---------------------------
(***************************************************************************)
(* Proofs about Dispatch: an inductive invariant of the specification, and *)
(* from it the safety properties that TLC checks on small instances; and,  *)
(* of DispatchOrder, the order in which sleepers run.                      *)
(***************************************************************************)
EXTENDS DispatchOrder, DispQueue_proofs

(***************************************************************************)
(* The inductive invariant, in parts.                                      *)
(***************************************************************************)

\* The dispatcher queues: sound in themselves, and the processes linked, each
\* on the queue of its priority, are the runnable ones and the one preempt() is
\* switching away from.
QueueOK(d, ok, pri, S) ==
    /\ Sound(d, ok)
    /\ \A x \in Proc : \A k \in Pri : OnQueue(d, x, k) <=> k = pri[x] /\ x \in S
Queued ==
    {p \in Proc : p_stat[p] = "SRUN" \/ (cpu = "preempt" /\ p = curproc)}
QueueInv == QueueOK(dq, Schedulable, p_pri, Queued)

\* The processor.
Executing == cpu \in {"run", "runhi", "preempt"}
CpuInv ==
    /\ Executing => /\ \A p \in Proc : p_stat[p] = "SONPROC" <=> p = curproc
                    /\ curpri = p_pri[curproc]
                    /\ curproc \in Schedulable
    /\ ~ Executing => \A p \in Proc : p_stat[p] # "SONPROC"

\* The sleep queues: sq links the processes that w says are asleep, each on the
\* queue of its channel.
SleepqOK(sq, w) ==
    /\ sq \in [0 .. NSleepq - 1 -> Seq(Proc)]
    /\ \A b \in 0 .. NSleepq - 1 :
           /\ Injective(sq[b])
           /\ \A x \in Proc : Holds(sq[b], x) <=> w[x] \in Chan /\ sqhash[w[x]] = b
SleepInv ==
    /\ SleepqOK(sleepq, p_wchan)
    /\ \A p \in Proc : p_stat[p] = "SSLEEP" <=> p_wchan[p] # NoChan

\* The memory scheduler and what it waits for.
IoEvent == IoChan \cup {SwapIo}
SchedInv ==
    /\ SwapperArmed
    /\ p_stat[Sched] # "SZOMB"
    /\ pc[Sched] \in {"swapin", "swapout"} => nominee \in Ts \ sload
    /\ \A p \in Ts : p_wchan[p] \in IoChan \cup {NoChan}
    /\ isr.runsched => runout
    /\ isr.op # "wakeprocs" => ~ isr.runsched
    /\ isr.op = "wakeprocs" => isr.chan \in IoEvent
    /\ isr.op = "ts_update" => isr.i # 0
    /\ isr.op = "none" => isr = NoIsr

\* Events: nobody sleeps on one that has happened but those the wakeprocs() in
\* progress will reach.
EventInv ==
    /\ done \subseteq IoEvent
    /\ \A p \in Ts : pc[p] \in {"wait", "biowait"} => want[p] \in IoChan
    /\ \A p \in Proc : p_wchan[p] \in done => isr.op = "wakeprocs" /\ isr.chan = p_wchan[p]

\* proc_sched waits for a nominee only while there is none, or while the
\* wakeprocs() in progress is about to set it running.
NomineeInv == runout /\ SomeNominee => isr.runsched

IInv ==
    TypeOK /\ QueueInv /\ CpuInv /\ SleepInv /\ SchedInv /\ EventInv /\ NomineeInv

(***************************************************************************)
(* Constants.                                                              *)
(***************************************************************************)

\* What the proofs use of the assumptions on the constants.
LEMMA Consts ==
    /\ IsFiniteSet(Proc) /\ Sched \in Proc /\ Ts \subseteq Proc /\ Sched \notin Ts
    /\ NoProc \notin Proc /\ NoChan \notin Chan
    /\ IoEvent \subseteq Chan /\ {RunOut, RunIn} \subseteq Chan
    /\ RunOut \notin IoEvent /\ RunIn \notin IoEvent /\ RunOut # RunIn
    /\ Umd \subseteq Pri /\ Umd \subseteq Int
  BY DispatchAssumption, MaxPriAssumption
     DEF DispatchAssumption, Ts, IoEvent, Chan, Umd, Pri

\* TS_NEWUMDPRI yields a user level, which is a global priority.
LEMMA UmdpriType ==
    ASSUME NEW cp \in Umd, NEW up \in MinUpri .. 0
    PROVE  umdpri(cp, up) \in Umd /\ umdpri(cp, up) \in Pri
  BY DispatchAssumption, MaxPriAssumption DEF DispatchAssumption, Umd, Pri, umdpri

\* The processes of the time-sharing list.
LEMMA ListType ==
    ASSUME NEW i \in Nat, i # 0, i <= Len(TsList)
    PROVE  TsList[i] \in Ts
  BY DispatchAssumption DEF DispatchAssumption

(***************************************************************************)
(* The routines of the dispatcher queues, in terms of QueueOK.             *)
(***************************************************************************)

\* setbackdq() and setfrontdq() of a process that is on no queue.
LEMMA Enqueue ==
    ASSUME NEW ok \in SUBSET Proc, NEW pri \in [Proc -> Pri], NEW d, NEW S,
           QueueOK(d, ok, pri, S), NEW p \in Proc \ S, NEW b, b = (p \in ok)
    PROVE  /\ QueueOK(setbackdq(d, p, pri[p], b), ok, pri, S \cup {p})
           /\ QueueOK(setfrontdq(d, p, pri[p], b), ok, pri, S \cup {p})
<1>1. Sound(d, ok) /\ ~ OnSome(d, p)
  BY DEF QueueOK, OnSome
<1>2. /\ Sound(setbackdq(d, p, pri[p], b), ok)
      /\ Joined(d, setbackdq(d, p, pri[p], b), p, pri[p])
  BY <1>1, Consts, SetbackSound
<1>3. /\ Sound(setfrontdq(d, p, pri[p], b), ok)
      /\ Joined(d, setfrontdq(d, p, pri[p], b), p, pri[p])
  BY <1>1, Consts, SetfrontSound
<1> QED
  BY <1>2, <1>3 DEF QueueOK, Joined

\* dispdeq() of a process that is on its queue.
LEMMA Dequeue ==
    ASSUME NEW ok \in SUBSET Proc, NEW pri \in [Proc -> Pri], NEW d, NEW S,
           QueueOK(d, ok, pri, S), NEW p \in Proc, p \in S, NEW b, b = (p \in ok)
    PROVE  QueueOK(dispdeq(d, p, pri[p], b), ok, pri, S \ {p})
<1>1. Sound(d, ok) /\ OnQueue(d, p, pri[p])
  BY DEF QueueOK
<1>2. Sound(dispdeq(d, p, pri[p], b), ok) /\ Left(d, dispdeq(d, p, pri[p], b), p)
  BY <1>1, Consts, DispdeqSound
<1> QED
  BY <1>2 DEF QueueOK, Left

\* The priority of a queued process changes, and it moves.
LEMMA RequeueOK ==
    ASSUME NEW pri \in [Proc -> Pri], NEW d, NEW S, Schedulable \subseteq Proc,
           QueueOK(d, Schedulable, pri, S), NEW p \in Proc, p \in S, NEW n \in Pri
    PROVE  QueueOK(Requeue(d, p, pri[p], n), Schedulable, [pri EXCEPT ![p] = n], S)
<1>1. Sound(d, Schedulable) /\ OnQueue(d, p, pri[p])
  BY DEF QueueOK
<1>2. /\ Sound(Requeue(d, p, pri[p], n), Schedulable)
      /\ Moved(d, Requeue(d, p, pri[p], n), p, n)
  BY <1>1, Consts, MoveSound DEF Requeue
<1> QED
  BY <1>2 DEF QueueOK, Moved

\* The priority of a process that is on no queue changes.
LEMMA RepriOK ==
    ASSUME NEW ok, NEW pri \in [Proc -> Pri], NEW d, NEW S, QueueOK(d, ok, pri, S),
           NEW p \in Proc, p \notin S, NEW n \in Pri
    PROVE  QueueOK(d, ok, [pri EXCEPT ![p] = n], S)
  BY DEF QueueOK

\* SLOAD goes on, and dq_sruninc() counts the process if it is queued.
LEMMA LoadOK ==
    ASSUME NEW ok \in SUBSET Proc, NEW pri \in [Proc -> Pri], NEW d, NEW S,
           QueueOK(d, ok, pri, S), NEW p \in Proc, p \notin ok
    PROVE  QueueOK(IF p \in S THEN dq_sruninc(d, pri[p]) ELSE d, ok \cup {p}, pri, S)
<1>1. Sound(d, ok)
  BY DEF QueueOK
<1>2. CASE p \in S
  <2>1. OnQueue(d, p, pri[p])
    BY <1>2 DEF QueueOK
  <2>2. /\ Sound(dq_sruninc(d, pri[p]), ok \cup {p})
        /\ dq_sruninc(d, pri[p]).q = d.q
    BY <1>1, <2>1, Consts, LoadSound
  <2> QED BY <1>2, <2>2 DEF QueueOK, OnQueue
<1>3. CASE p \notin S
  <2>1. ~ OnSome(d, p)
    BY <1>3 DEF QueueOK, OnSome
  <2>2. Sound(d, ok \cup {p})
    BY <1>1, <2>1, OffQueueSound
  <2> QED BY <1>3, <2>2 DEF QueueOK
<1> QED BY <1>2, <1>3

\* SLOAD goes off, and dq_srundec() counts the process no more.
LEMMA UnloadOK ==
    ASSUME NEW ok \in SUBSET Proc, NEW pri \in [Proc -> Pri], NEW d, NEW S,
           QueueOK(d, ok, pri, S), NEW p \in Proc, p \in ok
    PROVE  QueueOK(IF p \in S THEN dq_srundec(d, pri[p]) ELSE d, ok \ {p}, pri, S)
<1>1. Sound(d, ok)
  BY DEF QueueOK
<1>2. CASE p \in S
  <2>1. OnQueue(d, p, pri[p])
    BY <1>2 DEF QueueOK
  <2>2. /\ Sound(dq_srundec(d, pri[p]), ok \ {p})
        /\ dq_srundec(d, pri[p]).q = d.q
    BY <1>1, <2>1, Consts, UnloadSound
  <2> QED BY <1>2, <2>2 DEF QueueOK, OnQueue
<1>3. CASE p \notin S
  <2>1. ~ OnSome(d, p)
    BY <1>3 DEF QueueOK, OnSome
  <2>2. Sound(d, ok \ {p})
    BY <1>1, <2>1, OffQueueSound
  <2> QED BY <1>3, <2>2 DEF QueueOK
<1> QED BY <1>2, <1>3

(***************************************************************************)
(* The sleep queues.                                                       *)
(***************************************************************************)

\* sleep() links a process that does not sleep.
LEMMA AddSleeper ==
    ASSUME NEW sq, NEW w \in [Proc -> Chan \cup {NoChan}], SleepqOK(sq, w),
           NEW p \in Proc, w[p] = NoChan, NEW ch \in Chan
    PROVE  SleepqOK([sq EXCEPT ![sqhash[ch]] = Append(@, p)], [w EXCEPT ![p] = ch])
<1> DEFINE c == sqhash[ch]
           t == Append(sq[c], p)
<1>1. sq \in [0 .. NSleepq - 1 -> Seq(Proc)] /\ c \in 0 .. NSleepq - 1
      /\ sq[c] \in Seq(Proc)
  BY DispatchAssumption DEF DispatchAssumption, SleepqOK
<1>2. \A b \in 0 .. NSleepq - 1 : ~ Holds(sq[b], p)
  BY Consts DEF SleepqOK
<1>3. /\ t \in Seq(Proc) /\ Injective(t)
      /\ \A x : Holds(t, x) <=> Holds(sq[c], x) \/ x = p
  BY <1>1, <1>2, AppendHolds DEF SleepqOK
<1>4. [sq EXCEPT ![sqhash[ch]] = Append(@, p)] = [sq EXCEPT ![c] = t]
  OBVIOUS
<1> HIDE DEF t
<1>5. SleepqOK([sq EXCEPT ![c] = t], [w EXCEPT ![p] = ch])
  BY <1>1, <1>2, <1>3, Consts DEF SleepqOK
<1> QED BY <1>4, <1>5

\* wakeprocs() and setrun() unlink a process that sleeps.
LEMMA DropSleeper ==
    ASSUME NEW sq, NEW w \in [Proc -> Chan \cup {NoChan}], SleepqOK(sq, w),
           NEW p \in Proc, w[p] \in Chan
    PROVE  SleepqOK([sq EXCEPT ![sqhash[w[p]]] = Drop(@, p)], [w EXCEPT ![p] = NoChan])
<1> DEFINE c == sqhash[w[p]]
           i == CHOOSE n \in DOMAIN sq[c] : sq[c][n] = p
           t == RemoveAt(sq[c], i)
<1>1. sq \in [0 .. NSleepq - 1 -> Seq(Proc)] /\ c \in 0 .. NSleepq - 1
      /\ sq[c] \in Seq(Proc)
  BY DispatchAssumption DEF DispatchAssumption, SleepqOK
<1>2. Injective(sq[c]) /\ Holds(sq[c], p)
  BY <1>1 DEF SleepqOK
<1>3. \A b \in 0 .. NSleepq - 1 : Holds(sq[b], p) => b = c
  BY DEF SleepqOK
<1>4. i \in DOMAIN sq[c] /\ sq[c][i] = p
  BY <1>2 DEF Holds
<1> HIDE DEF i
<1>5. /\ t \in Seq(Proc) /\ Injective(t)
      /\ \A x : Holds(t, x) <=> Holds(sq[c], x) /\ x # p
  BY <1>1, <1>2, <1>4, RemoveHolds
<1>6. [sq EXCEPT ![sqhash[w[p]]] = Drop(@, p)] = [sq EXCEPT ![c] = t]
  BY DEF Drop, i
<1> HIDE DEF t
<1>7. SleepqOK([sq EXCEPT ![c] = t], [w EXCEPT ![p] = NoChan])
  BY <1>1, <1>3, <1>5, Consts DEF SleepqOK
<1> QED BY <1>6, <1>7

(***************************************************************************)
(* The dispatcher queues stay sound.                                       *)
(***************************************************************************)

\* What the parts of the invariant say together of who is queued.
LEMMA QueuedFacts ==
    ASSUME IInv
    PROVE  /\ Schedulable \in SUBSET Proc /\ p_pri \in [Proc -> Pri]
           /\ p_stat \in [Proc -> Stat] /\ curproc \in Proc
           /\ \A p \in Proc : OnQueue(dq, p, p_pri[p]) <=> p \in Queued
           /\ \A p \in Proc : p_stat[p] \in {"SSLEEP", "SZOMB"} => p \notin Queued
           /\ \A p \in Proc : p_stat[p] = "SRUN" => p \in Queued
           /\ cpu \in {"run", "runhi"} => p_stat[curproc] = "SONPROC" /\ curproc \notin Queued
  BY Consts DEF IInv, TypeOK, QueueInv, QueueOK, CpuInv, Executing, Queued, Schedulable

\* The priority of one process changes, and if it is queued it moves.
LEMMA RepriQueue ==
    ASSUME IInv, NEW p \in Proc, NEW u \in Pri, p_pri' = [p_pri EXCEPT ![p] = u],
           dq' = IF OnQueue(dq, p, p_pri[p]) THEN Requeue(dq, p, p_pri[p], u) ELSE dq,
           UNCHANGED << p_stat, sload, cpu, curproc >>
    PROVE  QueueInv'
<1>1. QueueOK(dq, Schedulable, p_pri, Queued)
  BY DEF IInv, QueueInv
<1>2. Queued' = Queued /\ Schedulable' = Schedulable
  BY DEF Queued, Schedulable
<1>3. QueueOK(dq', Schedulable, p_pri', Queued)
  BY <1>1, QueuedFacts, RequeueOK, RepriOK
<1> QED BY <1>2, <1>3 DEF QueueInv

\* setrun(proc_sched).
LEMMA SetrunQueue ==
    ASSUME IInv, SetrunSched, p_stat[Sched] = "SSLEEP",
           UNCHANGED << p_pri, sload, cpu, curproc >>
    PROVE  QueueInv'
<1>1. QueueOK(dq, Schedulable, p_pri, Queued)
  BY DEF IInv, QueueInv
<1>2. Queued' = Queued \cup {Sched} /\ Schedulable' = Schedulable
  BY QueuedFacts, Consts DEF Queued, Schedulable, SetrunSched
<1>3. QueueOK(setbackdq(dq, Sched, p_pri[Sched], TRUE), Schedulable, p_pri,
              Queued \cup {Sched})
  BY <1>1, QueuedFacts, Consts, Enqueue DEF Schedulable
<1> QED BY <1>2, <1>3 DEF QueueInv, SetrunSched

\* sleep() by the memory scheduler, loading or not a process meanwhile.
LEMMA SchedSleepQueue ==
    ASSUME IInv, NEW ch, NEW disp \in Disp, SchedSleep(ch, disp),
           cpu \in {"run", "runhi"}, curproc = Sched, curproc' = curproc,
           \/ UNCHANGED << sload, dq >>
           \/ /\ nominee \in Ts \ sload
              /\ sload' = sload \cup {nominee} /\ dq' = CountIn(nominee)
    PROVE  QueueInv'
<1> DEFINE pri == p_pri[Sched]
<1>1. QueueOK(dq, Schedulable, p_pri, Queued)
  BY DEF IInv, QueueInv
<1>2. Queued' = Queued /\ Sched \notin Queued
  BY QueuedFacts, Consts DEF SchedSleep, Queued
<1>3. QueueOK(dq', Schedulable', p_pri, Queued)
  <2>1. CASE UNCHANGED << sload, dq >>
    BY <1>1, <2>1 DEF Schedulable
  <2>2. CASE /\ nominee \in Ts \ sload
             /\ sload' = sload \cup {nominee} /\ dq' = CountIn(nominee)
    <3>1. Schedulable' = Schedulable \cup {nominee} /\ nominee \notin Schedulable
      BY <2>2, Consts DEF Schedulable
    <3>2. nominee \in Proc /\ (p_stat[nominee] = "SRUN" <=> nominee \in Queued)
      BY <2>2, Consts DEF Queued
    <3> QED BY <1>1, <2>2, <3>1, <3>2, QueuedFacts, LoadOK DEF CountIn
  <2> QED BY <2>1, <2>2
<1>4. SysPri[disp] \in Pri
  BY DispatchAssumption DEF DispatchAssumption
<1>5. QueueOK(dq', Schedulable', [p_pri EXCEPT ![Sched] = SysPri[disp]], Queued)
  BY <1>2, <1>3, <1>4, QueuedFacts, Consts, RepriOK
<1> QED BY <1>2, <1>5 DEF QueueInv, SchedSleep

\* sleep() by a time-sharing process.
LEMMA TsSleepQueue ==
    ASSUME IInv, NEW p \in Ts, Running(p), NEW ch, NEW disp \in Disp, TsSleep(p, ch, disp)
    PROVE  QueueInv'
<1> DEFINE pri == [p_pri EXCEPT ![p] = KmdPri[disp]]
<1>1. QueueOK(dq, Schedulable, p_pri, Queued)
  BY DEF IInv, QueueInv
<1>2. p \in Proc /\ p # Sched /\ p = curproc /\ p \notin Queued /\ cpu = "run"
  BY QueuedFacts, Consts DEF Running
<1>3. KmdPri[disp] \in Pri
  BY DispatchAssumption DEF DispatchAssumption
<1>4. pri \in [Proc -> Pri] /\ pri[Sched] = p_pri[Sched] /\ p_pri' = pri
  BY <1>2, <1>3, QueuedFacts, Consts DEF TsSleep
<1>5. QueueOK(dq, Schedulable, pri, Queued)
  BY <1>1, <1>2, <1>3, QueuedFacts, RepriOK
<1>6. Schedulable' = Schedulable
  BY DEF TsSleep, Schedulable
<1> HIDE DEF pri
<1>7. CASE disp = "PSLEP" /\ runin
  <2>1. Queued' = Queued \cup {Sched}
    BY <1>2, <1>7, QueuedFacts, Consts DEF TsSleep, Queued
  <2>2. Sched \notin Queued
    BY <1>7, QueuedFacts, Consts DEF IInv, SleepInv, SchedInv, SwapperArmed
  <2>3. dq' = setbackdq(dq, Sched, pri[Sched], TRUE)
    BY <1>4, <1>7 DEF TsSleep
  <2>4. QueueOK(dq', Schedulable, pri, Queued \cup {Sched})
    BY <1>4, <1>5, <2>2, <2>3, QueuedFacts, Consts, Enqueue DEF Schedulable
  <2> QED BY <1>4, <1>6, <2>1, <2>4 DEF QueueInv
<1>8. CASE ~ (disp = "PSLEP" /\ runin)
  <2>1. Queued' = Queued
    BY <1>2, <1>8, QueuedFacts DEF TsSleep, Queued
  <2>2. dq' = dq
    BY <1>8 DEF TsSleep
  <2> QED BY <1>4, <1>5, <1>6, <2>1, <2>2 DEF QueueInv
<1> QED BY <1>7, <1>8

\* CL_PREEMPT.
LEMMA PreemptQueue ==
    ASSUME IInv, NEW p \in Ts, Running(p), ts_preempt(p)
    PROVE  QueueInv'
<1>1. QueueOK(dq, Schedulable, p_pri, Queued)
  BY DEF IInv, QueueInv
<1>2. p \in Proc /\ p = curproc /\ p \notin Queued
  BY QueuedFacts, Consts DEF Running
<1>3. /\ Queued' = Queued \cup {p} /\ Schedulable' = Schedulable /\ p_pri' = p_pri
  BY <1>2 DEF ts_preempt, Queued, Schedulable, procVars, cpuVars, Running
<1>4. \/ dq' = setbackdq(dq, p, p_pri[p], p \in Schedulable)
      \/ dq' = setfrontdq(dq, p, p_pri[p], p \in Schedulable)
  BY DEF ts_preempt
<1>5. QueueOK(dq', Schedulable, p_pri, Queued \cup {p})
  BY <1>1, <1>2, <1>4, QueuedFacts, Enqueue
<1> QED BY <1>3, <1>5 DEF QueueInv

\* Every step keeps the dispatcher queues and their counts in order.
LEMMA QueueStep ==
    ASSUME IInv, [Next]_vars
    PROVE  QueueInv'
<1> USE QueuedFacts, Consts
<1>1. QueueOK(dq, Schedulable, p_pri, Queued)
  BY DEF IInv, QueueInv
<1>2. ASSUME Queued' = Queued, UNCHANGED << dq, p_pri, sload >>
      PROVE  QueueInv'
  BY <1>1, <1>2 DEF QueueInv, Schedulable
<1>3. ASSUME NEW p \in Ts, ProcessStep(p)
      PROVE  QueueInv'
  <2>1. CASE Syscall(p)
    BY <1>2, <2>1 DEF Syscall, Queued, procVars, cpuVars, queueVars
  <2>2. ASSUME NEW ch \in IoChan, NEW start \in BOOLEAN, NEW disp \in SleepDisp,
               Request(p, ch, start, disp)
        PROVE  QueueInv'
    BY <1>2, <2>2 DEF Request, Queued, procVars, cpuVars, queueVars
  <2>3. ASSUME NEW ch \in IoChan, NEW np \in PostFlags, Post(p, ch, np)
        PROVE  QueueInv'
    BY <1>2, <2>3 DEF Post, Queued, procVars, cpuVars, queueVars
  <2>4. CASE WaitLoop(p)
    <3>1. CASE want[p] \in done
      BY <1>2, <2>4, <3>1 DEF WaitLoop, Queued, procVars, cpuVars, queueVars
    <3>2. CASE want[p] \notin done
      BY <2>4, <3>2, TsSleepQueue DEF WaitLoop, Disp
    <3> QED BY <3>1, <3>2
  <2>5. ASSUME NEW q \in Ts, NEW new \in MinUpri .. 0, ts_parmsset(p, q, new)
        PROVE  QueueInv'
    <3> DEFINE u == umdpri(cpupri[q], new)
    <3>1. q \in Proc /\ u \in Pri
      BY UmdpriType DEF IInv, TypeOK
    <3>2. UNCHANGED << p_stat, sload, cpu, curproc >>
      BY <2>5 DEF ts_parmsset
    <3>3. CASE q \in tskpri
      BY <1>2, <2>5, <3>2, <3>3 DEF ts_parmsset, Queued
    <3>4. CASE q \notin tskpri
      <4> HIDE DEF u
      <4>1. p_pri' = [p_pri EXCEPT ![q] = u]
        BY <2>5, <3>4 DEF ts_parmsset, u
      <4>2. dq' = IF OnQueue(dq, q, p_pri[q]) THEN Requeue(dq, q, p_pri[q], u) ELSE dq
        <5>1. q = curproc => ~ OnQueue(dq, q, p_pri[q])
          BY <2>5, <3>1 DEF ts_parmsset, Running
        <5> QED BY <2>5, <3>4, <5>1 DEF ts_parmsset, u
      <4> QED BY <3>1, <3>2, <4>1, <4>2, RepriQueue
    <3> QED BY <3>3, <3>4
  <2>6. CASE TrapExit(p)
    BY <2>6, PreemptQueue DEF TrapExit
  <2>7. CASE ts_trapret(p)
    <3> DEFINE u == umdpri(SlpRet[cpupri[p]], upri[p])
    <3>1. p \in Proc /\ u \in Pri /\ ~ OnQueue(dq, p, p_pri[p])
      <4>1. SlpRet[cpupri[p]] \in Umd /\ upri[p] \in MinUpri .. 0
        BY DispatchAssumption DEF DispatchAssumption, IInv, TypeOK
      <4>2. p = curproc /\ cpu = "run"
        BY <2>7 DEF ts_trapret, Running
      <4> QED BY <4>1, <4>2, UmdpriType
    <3>2. UNCHANGED << p_stat, sload, cpu, curproc, dq >>
      BY <2>7 DEF ts_trapret, queueVars
    <3>3. CASE p \in tskpri
      <4>1. p_pri' = [p_pri EXCEPT ![p] = u]
        BY <2>7, <3>3 DEF ts_trapret
      <4> HIDE DEF u
      <4> QED BY <3>1, <3>2, <4>1, RepriQueue
    <3>4. CASE p \notin tskpri
      BY <1>2, <2>7, <3>2, <3>4 DEF ts_trapret, Queued
    <3> QED BY <3>3, <3>4
  <2>8. CASE s_trap(p)
    BY <2>8, PreemptQueue DEF s_trap
  <2>9. CASE Exit(p)
    <3>1. p = curproc /\ cpu = "run" /\ p \in Proc
      BY <2>9 DEF Exit, Running
    <3>2. Queued' = Queued
      BY <2>9, <3>1 DEF Exit, Queued, cpuVars
    <3> QED BY <1>2, <2>9, <3>2 DEF Exit, queueVars
  <2> QED
    BY <1>3, <2>1, <2>2, <2>3, <2>4, <2>5, <2>6, <2>7, <2>8, <2>9 DEF ProcessStep
<1>4. ASSUME SchedStep
      PROVE  QueueInv'
  <2>1. ASSUME NEW low \in MemLow, SchedWaitOut(low)
        PROVE  QueueInv'
    BY <2>1, SchedSleepQueue DEF SchedWaitOut, InSched, Disp, cpuVars
  <2>2. ASSUME NEW low \in MemLow, SchedUnload(low)
        PROVE  QueueInv'
    BY <1>2, <2>2 DEF SchedUnload, InSched, Queued, procVars, cpuVars, queueVars
  <2>3. ASSUME NEW low \in MemLow, NEW p \in Ts, SchedSwapin(p, low)
        PROVE  QueueInv'
    BY <1>2, <2>3 DEF SchedSwapin, Queued, procVars, cpuVars, queueVars
  <2>4. ASSUME NEW low \in MemLow, NEW ok \in BOOLEAN, SchedLoaded(ok, low)
        PROVE  QueueInv'
    <3>1. Queued' = Queued
      BY <2>4 DEF SchedLoaded, InSched, Queued, cpuVars
    <3>2. CASE ok
      <4>1. nominee \in Ts \ sload /\ curproc = Sched
        BY <2>4 DEF SchedLoaded, InSched, IInv, SchedInv
      <4>2. Schedulable' = Schedulable \cup {nominee} /\ nominee \notin Schedulable
        BY <2>4, <3>2, <4>1 DEF SchedLoaded, Schedulable
      <4>3. nominee \in Proc /\ (p_stat[nominee] = "SRUN" <=> nominee \in Queued)
        BY <4>1 DEF Queued
      <4>4. QueueOK(CountIn(nominee), Schedulable', p_pri, Queued)
        BY <1>1, <4>2, <4>3, LoadOK DEF CountIn
      <4> QED BY <2>4, <3>1, <3>2, <4>4 DEF SchedLoaded, QueueInv
    <3>3. CASE ~ ok
      BY <1>2, <2>4, <3>1, <3>3 DEF SchedLoaded
    <3> QED BY <3>2, <3>3
  <2>5. CASE SchedIo
    BY <2>5, SchedSleepQueue DEF SchedIo, InSched, Disp, cpuVars
  <2>6. CASE SchedUnloaded
    BY <1>2, <2>6 DEF SchedUnloaded, Queued, procVars, cpuVars, queueVars
  <2>7. CASE SchedWaitIn
    <3>1. SchedSleep(RunIn, "PSWP") /\ UNCHANGED curproc
      BY <2>7 DEF SchedWaitIn, cpuVars
    <3>2. cpu \in {"run", "runhi"} /\ curproc = Sched
      BY <2>7 DEF SchedWaitIn, InSched
    <3>3. \/ UNCHANGED << sload, dq >>
          \/ /\ nominee \in Ts \ sload
             /\ sload' = sload \cup {nominee} /\ dq' = CountIn(nominee)
      BY <2>7 DEF SchedWaitIn, InSched, IInv, SchedInv
    <3> QED BY <3>1, <3>2, <3>3, SchedSleepQueue DEF Disp
  <2>8. ASSUME NEW p \in Ts, SchedSwapout(p)
        PROVE  QueueInv'
    <3>1. Queued' = Queued /\ curproc = Sched /\ cpu \in {"run", "runhi"}
      BY <2>8 DEF SchedSwapout, InSched, Queued, cpuVars
    <3>2. p \in sload
      BY <2>8 DEF SchedSwapout, SwapoutNominee
    <3>3. Schedulable' = Schedulable \ {p} /\ p \in Schedulable
      BY <2>8, <3>2 DEF SchedSwapout, Schedulable
    <3>4. p \in Proc /\ (p_stat[p] = "SRUN" <=> p \in Queued)
      BY <3>1 DEF Queued
    <3>5. QueueOK(CountOut(p), Schedulable', p_pri, Queued)
      BY <1>1, <3>3, <3>4, UnloadOK DEF CountOut
    <3> QED BY <2>8, <3>1, <3>5 DEF SchedSwapout, QueueInv
  <2> QED
    BY <1>4, <2>1, <2>2, <2>3, <2>4, <2>5, <2>6, <2>7, <2>8 DEF SchedStep
<1>5. ASSUME SwitchStep
      PROVE  QueueInv'
  <2>1. CASE PswtchEnter
    <3>1. Queued' = Queued
      BY <2>1 DEF PswtchEnter, Queued, cpuVars
    <3> QED BY <1>2, <2>1, <3>1 DEF PswtchEnter, queueVars
  <2>2. CASE PswtchIdle
    BY <1>2, <2>2 DEF PswtchIdle, Queued, procVars, queueVars
  <2>3. ASSUME NEW p \in Proc, PswtchPick(p)
        PROVE  QueueInv'
    <3>1. dq.max \in Pri /\ p \in Schedulable /\ OnQueue(dq, p, dq.max)
      BY <1>1, <2>3, FirstIsHighest DEF PswtchPick, QueueOK
    <3>2. p \in Queued /\ p_pri[p] = dq.max
      BY <1>1, <3>1 DEF QueueOK
    <3>3. Queued' = Queued \ {p} /\ Schedulable' = Schedulable
      BY <2>3 DEF PswtchPick, Queued, Schedulable
    <3>4. QueueOK(dispdeq(dq, p, dq.max, TRUE), Schedulable, p_pri, Queued \ {p})
      BY <1>1, <3>1, <3>2, Dequeue
    <3> QED BY <2>3, <3>3, <3>4 DEF PswtchPick, QueueInv
  <2> QED BY <1>5, <2>1, <2>2, <2>3 DEF SwitchStep
<1>6. ASSUME LoopStep
      PROVE  QueueInv'
  <2>1. ASSUME NEW p \in Proc, WakeOne(p)
        PROVE  QueueInv'
    <3>1. p_wchan[p] \in Chan /\ p \notin Queued
      BY <2>1 DEF WakeOne, IInv, SchedInv, SleepInv
    <3>2. Queued' = Queued \cup {p} /\ Schedulable' = Schedulable /\ p_pri' = p_pri
      BY <2>1 DEF WakeOne, Queued, Schedulable
    <3>3. QueueOK(dq', Schedulable, p_pri, Queued \cup {p})
      BY <1>1, <2>1, <3>1, Enqueue DEF WakeOne
    <3> QED BY <3>2, <3>3 DEF QueueInv
  <2>2. CASE WakeEnd
    <3>1. UNCHANGED << p_pri, sload, cpu, curproc >>
      BY <2>2 DEF WakeEnd
    <3>2. CASE isr.runsched
      BY <2>2, <3>1, <3>2, SetrunQueue
         DEF WakeEnd, IInv, SchedInv, SwapperArmed, SleepInv
    <3>3. CASE ~ isr.runsched
      BY <1>2, <2>2, <3>1, <3>3 DEF WakeEnd, Queued
    <3> QED BY <3>2, <3>3
  <2>3. CASE UpdateOne
    <3> DEFINE p == TsList[isr.i]
               u == umdpri(LWait[cpupri[p]], upri[p])
    <3>1. p \in Proc /\ u \in Pri
      <4>1. p \in Ts
        BY <2>3, ListType DEF UpdateOne, IInv, SchedInv, TypeOK, IsrState
      <4>2. LWait[cpupri[p]] \in Umd /\ upri[p] \in MinUpri .. 0
        BY <4>1, DispatchAssumption DEF DispatchAssumption, IInv, TypeOK
      <4> QED BY <4>1, <4>2, UmdpriType
    <3>2. UNCHANGED << p_stat, sload, cpu, curproc >>
      BY <2>3 DEF UpdateOne
    <3>3. \/ UNCHANGED << p_pri, dq >>
          \/ /\ p_pri' = [p_pri EXCEPT ![p] = u]
             /\ dq' = IF OnQueue(dq, p, p_pri[p]) THEN Requeue(dq, p, p_pri[p], u)
                      ELSE dq
      BY <2>3 DEF UpdateOne
    <3> HIDE DEF p, u
    <3>4. CASE UNCHANGED << p_pri, dq >>
      BY <1>2, <3>2, <3>4 DEF Queued
    <3> QED BY <3>1, <3>2, <3>3, <3>4, RepriQueue
  <2>4. CASE UpdateEnd
    BY <1>2, <2>4 DEF UpdateEnd, Queued, procVars, queueVars
  <2> QED BY <1>6, <2>1, <2>2, <2>3, <2>4 DEF LoopStep
<1>7. ASSUME Interrupt
      PROVE  QueueInv'
  <2>1. ASSUME NEW ch \in IoChan \cup {SwapIo}, IoDone(ch)
        PROVE  QueueInv'
    BY <1>2, <2>1 DEF IoDone, Queued, procVars, queueVars, cpuVars
  <2>2. CASE Tick
    <3> DEFINE p == curproc
               u == umdpri(TqExp[cpupri[p]], upri[p])
    <3>1. p \in Proc /\ u \in Pri
      <4>1. p \in Ts
        BY <2>2 DEF Tick, Ts
      <4>2. TqExp[cpupri[p]] \in Umd /\ upri[p] \in MinUpri .. 0
        BY <4>1, DispatchAssumption DEF DispatchAssumption, IInv, TypeOK
      <4> QED BY <4>1, <4>2, UmdpriType
    <3>2. UNCHANGED << p_stat, sload, cpu, curproc >>
      BY <2>2 DEF Tick
    <3>3. \/ UNCHANGED << p_pri, dq >>
          \/ /\ p_pri' = [p_pri EXCEPT ![p] = u]
             /\ dq' = IF OnQueue(dq, p, p_pri[p]) THEN Requeue(dq, p, p_pri[p], u)
                      ELSE dq
      BY <2>2 DEF Tick
    <3> HIDE DEF p, u
    <3>4. CASE UNCHANGED << p_pri, dq >>
      BY <1>2, <3>2, <3>4 DEF Queued
    <3> QED BY <3>1, <3>2, <3>3, <3>4, RepriQueue
  <2>3. CASE UpdateBegin
    BY <1>2, <2>3 DEF UpdateBegin, Queued, procVars, queueVars, cpuVars
  <2>4. ASSUME NEW low \in MemLow, EverySecond(low)
        PROVE  QueueInv'
    <3>1. p_stat[Sched] = "SSLEEP"
      BY <2>4 DEF EverySecond, SchedDue, IInv, SchedInv, SwapperArmed, SleepInv
    <3> QED BY <2>4, <3>1, SetrunQueue DEF EverySecond
  <2> QED BY <1>7, <2>1, <2>2, <2>3, <2>4 DEF Interrupt
<1>8. CASE UNCHANGED vars
  BY <1>2, <1>8 DEF vars, Queued, procVars, queueVars, cpuVars
<1> QED BY <1>3, <1>4, <1>5, <1>6, <1>7, <1>8 DEF Next

(***************************************************************************)
(* The processor stays as CpuInv says.                                     *)
(***************************************************************************)

\* setrun(proc_sched) and what it leaves alone.
LEMMA SetrunCpu ==
    ASSUME IInv, SetrunSched, p_stat[Sched] = "SSLEEP",
           UNCHANGED << p_pri, sload, cpu, curproc, curpri >>
    PROVE  CpuInv'
  BY Consts DEF IInv, TypeOK, CpuInv, SetrunSched, Executing, Schedulable

\* Nobody is SONPROC once the one that was goes to sleep.
LEMMA SchedSleepCpu ==
    ASSUME IInv, NEW ch, NEW disp, SchedSleep(ch, disp),
           cpu \in {"run", "runhi"}, curproc = Sched
    PROVE  CpuInv'
  BY Consts DEF IInv, TypeOK, CpuInv, SchedSleep, Executing

\* The priority of one process changes, and curpri with it.
LEMMA RepriCpu ==
    ASSUME IInv, NEW p \in Proc, NEW u, p_pri' = [p_pri EXCEPT ![p] = u],
           curpri' = IF p = curproc THEN u ELSE curpri,
           UNCHANGED << p_stat, sload, cpu, curproc >>
    PROVE  CpuInv'
  BY DEF IInv, TypeOK, CpuInv, Executing, Schedulable

\* Every step keeps curproc, curpri and the states of the processes together.
LEMMA CpuStep ==
    ASSUME IInv, [Next]_vars
    PROVE  CpuInv'
<1> USE Consts
<1>1. CpuInv /\ p_stat \in [Proc -> Stat] /\ p_pri \in [Proc -> Pri] /\ curproc \in Proc
  BY DEF IInv, TypeOK
<1>2. ASSUME UNCHANGED << p_stat, p_pri, curproc, curpri, sload, cpu >>
      PROVE  CpuInv'
  BY <1>1, <1>2 DEF CpuInv, Executing, Schedulable
<1>3. ASSUME NEW p \in Ts, ProcessStep(p)
      PROVE  CpuInv'
  <2>1. CASE Syscall(p)
    BY <1>2, <2>1 DEF Syscall, procVars, cpuVars
  <2>2. ASSUME NEW ch \in IoChan, NEW start \in BOOLEAN, NEW disp \in SleepDisp,
               Request(p, ch, start, disp)
        PROVE  CpuInv'
    BY <1>2, <2>2 DEF Request, procVars, cpuVars
  <2>3. ASSUME NEW ch \in IoChan, NEW np \in PostFlags, Post(p, ch, np)
        PROVE  CpuInv'
    BY <1>2, <2>3 DEF Post, procVars, cpuVars
  <2>4. CASE WaitLoop(p)
    <3>1. CASE want[p] \in done
      BY <1>2, <2>4, <3>1 DEF WaitLoop, procVars, cpuVars
    <3>2. CASE want[p] \notin done
      <4>1. p = curproc /\ cpu = "run" /\ cpu' = "swtch"
        BY <2>4, <3>2 DEF WaitLoop, Running, TsSleep
      <4>2. \A q \in Proc : p_stat'[q] = "SONPROC" => p_stat[q] = "SONPROC" /\ q # p
        BY <1>1, <2>4, <3>2 DEF WaitLoop, TsSleep
      <4> QED BY <1>1, <4>1, <4>2 DEF CpuInv, Executing
    <3> QED BY <3>1, <3>2
  <2>5. ASSUME NEW q \in Ts, NEW new \in MinUpri .. 0, ts_parmsset(p, q, new)
        PROVE  CpuInv'
    <3>1. UNCHANGED << p_stat, sload, cpu, curproc >>
      BY <2>5 DEF ts_parmsset
    <3> DEFINE u == umdpri(cpupri[q], new)
    <3>2. \/ UNCHANGED << p_pri, curpri >>
          \/ /\ p_pri' = [p_pri EXCEPT ![q] = u]
             /\ curpri' = IF q = curproc THEN u ELSE curpri
      BY <2>5 DEF ts_parmsset
    <3> HIDE DEF u
    <3> QED BY <1>2, <3>1, <3>2, RepriCpu
  <2>6. CASE TrapExit(p)
    BY <1>1, <2>6 DEF TrapExit, ts_preempt, Running, CpuInv, Executing, Schedulable,
                      procVars, cpuVars
  <2>7. CASE ts_trapret(p)
    <3>1. UNCHANGED << p_stat, sload, cpu, curproc >> /\ p = curproc
      BY <2>7 DEF ts_trapret, Running
    <3> DEFINE u == umdpri(SlpRet[cpupri[p]], upri[p])
    <3>2. \/ UNCHANGED << p_pri, curpri >>
          \/ p_pri' = [p_pri EXCEPT ![p] = u] /\ curpri' = u
      BY <2>7 DEF ts_trapret
    <3> HIDE DEF u
    <3> QED BY <1>2, <3>1, <3>2, RepriCpu
  <2>8. CASE s_trap(p)
    BY <1>1, <2>8 DEF s_trap, ts_preempt, Running, CpuInv, Executing, Schedulable,
                      procVars, cpuVars
  <2>9. CASE Exit(p)
    BY <1>1, <2>9 DEF Exit, Running, CpuInv, Executing
  <2> QED
    BY <1>3, <2>1, <2>2, <2>3, <2>4, <2>5, <2>6, <2>7, <2>8, <2>9 DEF ProcessStep
<1>4. ASSUME SchedStep
      PROVE  CpuInv'
  <2>1. ASSUME NEW low \in MemLow, SchedWaitOut(low)
        PROVE  CpuInv'
    BY <2>1, SchedSleepCpu DEF SchedWaitOut, InSched
  <2>2. ASSUME NEW low \in MemLow, SchedUnload(low)
        PROVE  CpuInv'
    BY <1>1, <2>2 DEF SchedUnload, InSched, CpuInv, Executing, Schedulable,
                      procVars, cpuVars
  <2>3. ASSUME NEW low \in MemLow, NEW p \in Ts, SchedSwapin(p, low)
        PROVE  CpuInv'
    BY <1>2, <2>3 DEF SchedSwapin, procVars, cpuVars
  <2>4. ASSUME NEW low \in MemLow, NEW ok \in BOOLEAN, SchedLoaded(ok, low)
        PROVE  CpuInv'
    <3>1. curproc = Sched /\ cpu \in {"run", "runhi"} /\ cpu' \in {"run", "runhi"}
      BY <2>4 DEF SchedLoaded, InSched
    <3>2. UNCHANGED << p_stat, p_pri, curproc, curpri >>
      BY <2>4 DEF SchedLoaded, cpuVars
    <3> QED BY <1>1, <3>1, <3>2 DEF CpuInv, Executing, Schedulable
  <2>5. CASE SchedIo
    BY <2>5, SchedSleepCpu DEF SchedIo, InSched
  <2>6. CASE SchedUnloaded
    BY <1>2, <2>6 DEF SchedUnloaded, procVars, cpuVars
  <2>7. CASE SchedWaitIn
    BY <2>7, SchedSleepCpu DEF SchedWaitIn, InSched
  <2>8. ASSUME NEW p \in Ts, SchedSwapout(p)
        PROVE  CpuInv'
    <3>1. curproc = Sched /\ cpu \in {"run", "runhi"} /\ cpu' = "run"
      BY <2>8 DEF SchedSwapout, InSched
    <3>2. UNCHANGED << p_stat, p_pri, curproc, curpri >>
      BY <2>8 DEF SchedSwapout, cpuVars
    <3> QED BY <1>1, <3>1, <3>2 DEF CpuInv, Executing, Schedulable
  <2> QED
    BY <1>4, <2>1, <2>2, <2>3, <2>4, <2>5, <2>6, <2>7, <2>8 DEF SchedStep
<1>5. ASSUME SwitchStep
      PROVE  CpuInv'
  <2>1. CASE PswtchEnter
    BY <1>1, <2>1 DEF PswtchEnter, CpuInv, Executing
  <2>2. CASE PswtchIdle
    BY <1>1, <2>2 DEF PswtchIdle, CpuInv, Executing, procVars
  <2>3. ASSUME NEW p \in Proc, PswtchPick(p)
        PROVE  CpuInv'
    <3>1. p \in Schedulable
      BY <2>3 DEF PswtchPick, IsFirst
    <3> QED BY <1>1, <2>3, <3>1 DEF PswtchPick, CpuInv, Executing, Schedulable
  <2> QED BY <1>5, <2>1, <2>2, <2>3 DEF SwitchStep
<1>6. ASSUME LoopStep
      PROVE  CpuInv'
  <2>1. ASSUME NEW p \in Proc, WakeOne(p)
        PROVE  CpuInv'
    <3>1. p_stat[p] = "SSLEEP"
      BY <2>1 DEF WakeOne, IInv, SchedInv, SleepInv
    <3> QED BY <1>1, <2>1, <3>1 DEF WakeOne, CpuInv, Executing, Schedulable
  <2>2. CASE WakeEnd
    <3>1. UNCHANGED << p_pri, sload, cpu, curproc, curpri >>
      BY <2>2 DEF WakeEnd
    <3>2. CASE isr.runsched
      BY <2>2, <3>1, <3>2, SetrunCpu
         DEF WakeEnd, IInv, SchedInv, SwapperArmed, SleepInv
    <3>3. CASE ~ isr.runsched
      BY <1>2, <2>2, <3>1, <3>3 DEF WakeEnd
    <3> QED BY <3>2, <3>3
  <2>3. CASE UpdateOne
    <3> DEFINE p == TsList[isr.i]
               u == umdpri(LWait[cpupri[p]], upri[p])
    <3>1. p \in Proc
      BY <2>3, ListType DEF UpdateOne, IInv, SchedInv, TypeOK, IsrState
    <3>2. UNCHANGED << p_stat, sload, cpu, curproc >>
      BY <2>3 DEF UpdateOne
    <3>3. \/ UNCHANGED << p_pri, curpri >>
          \/ /\ p_pri' = [p_pri EXCEPT ![p] = u]
             /\ curpri' = IF p = curproc THEN u ELSE curpri
      BY <2>3 DEF UpdateOne
    <3> HIDE DEF p, u
    <3> QED BY <1>2, <3>1, <3>2, <3>3, RepriCpu
  <2>4. CASE UpdateEnd
    BY <1>2, <2>4 DEF UpdateEnd, procVars
  <2> QED BY <1>6, <2>1, <2>2, <2>3, <2>4 DEF LoopStep
<1>7. ASSUME Interrupt
      PROVE  CpuInv'
  <2>1. ASSUME NEW ch \in IoChan \cup {SwapIo}, IoDone(ch)
        PROVE  CpuInv'
    BY <1>2, <2>1 DEF IoDone, procVars, cpuVars
  <2>2. CASE Tick
    <3> DEFINE u == umdpri(TqExp[cpupri[curproc]], upri[curproc])
    <3>1. UNCHANGED << p_stat, sload, cpu, curproc >>
      BY <2>2 DEF Tick
    <3>2. \/ UNCHANGED << p_pri, curpri >>
          \/ p_pri' = [p_pri EXCEPT ![curproc] = u] /\ curpri' = u
      BY <2>2 DEF Tick
    <3> HIDE DEF u
    <3> QED BY <1>1, <1>2, <3>1, <3>2, RepriCpu
  <2>3. CASE UpdateBegin
    BY <1>2, <2>3 DEF UpdateBegin, procVars, cpuVars
  <2>4. ASSUME NEW low \in MemLow, EverySecond(low)
        PROVE  CpuInv'
    <3>1. p_stat[Sched] = "SSLEEP"
      BY <2>4 DEF EverySecond, SchedDue, IInv, SchedInv, SwapperArmed, SleepInv
    <3> QED BY <2>4, <3>1, SetrunCpu DEF EverySecond
  <2> QED BY <1>7, <2>1, <2>2, <2>3, <2>4 DEF Interrupt
<1>8. CASE UNCHANGED vars
  BY <1>2, <1>8 DEF vars, procVars, cpuVars
<1> QED BY <1>3, <1>4, <1>5, <1>6, <1>7, <1>8 DEF Next

(***************************************************************************)
(* The sleep queues stay sound.                                            *)
(***************************************************************************)

\* setrun(proc_sched).
LEMMA SetrunSleep ==
    ASSUME IInv, SetrunSched, p_stat[Sched] = "SSLEEP"
    PROVE  SleepInv'
<1>1. p_wchan \in [Proc -> Chan \cup {NoChan}] /\ p_wchan[Sched] \in Chan
  BY Consts DEF IInv, TypeOK, SleepInv
<1>2. SleepqOK(sleepq', p_wchan')
  <2>1. /\ sleepq' = [sleepq EXCEPT ![sqhash[p_wchan[Sched]]] = Drop(@, Sched)]
        /\ p_wchan' = [p_wchan EXCEPT ![Sched] = NoChan]
    BY DEF SetrunSched
  <2>2. SleepqOK(sleepq, p_wchan)
    BY DEF IInv, SleepInv
  <2> QED BY <1>1, <2>1, <2>2, Consts, DropSleeper
<1>3. \A p \in Proc : p_stat'[p] = "SSLEEP" <=> p_wchan'[p] # NoChan
  BY <1>1, Consts DEF SetrunSched, IInv, TypeOK, SleepInv
<1> QED BY <1>2, <1>3 DEF SleepInv

\* sleep() by the memory scheduler.
LEMMA SchedSleepSleep ==
    ASSUME IInv, NEW ch \in Chan, NEW disp, SchedSleep(ch, disp),
           cpu \in {"run", "runhi"}, curproc = Sched
    PROVE  SleepInv'
<1>1. p_wchan \in [Proc -> Chan \cup {NoChan}] /\ p_wchan[Sched] = NoChan
  BY Consts DEF IInv, TypeOK, CpuInv, Executing, SleepInv
<1>2. SleepqOK(sleepq', p_wchan')
  BY <1>1, Consts, AddSleeper DEF SchedSleep, IInv, SleepInv
<1>3. \A p \in Proc : p_stat'[p] = "SSLEEP" <=> p_wchan'[p] # NoChan
  BY <1>1, Consts DEF SchedSleep, IInv, TypeOK, SleepInv
<1> QED BY <1>2, <1>3 DEF SleepInv

\* sleep() by a time-sharing process.
LEMMA TsSleepSleep ==
    ASSUME IInv, NEW p \in Ts, Running(p), NEW ch \in Chan, NEW disp, TsSleep(p, ch, disp)
    PROVE  SleepInv'
<1> USE Consts
<1> DEFINE sq == [sleepq EXCEPT ![sqhash[ch]] = Append(@, p)]
           w == [p_wchan EXCEPT ![p] = ch]
<1>1. p_wchan \in [Proc -> Chan \cup {NoChan}] /\ p_stat \in [Proc -> Stat]
  BY DEF IInv, TypeOK
<1>2. p \in Proc /\ p # Sched /\ p_wchan[p] = NoChan
  BY DEF IInv, CpuInv, Running, Executing, SleepInv
<1>3. SleepqOK(sq, w) /\ w \in [Proc -> Chan \cup {NoChan}]
  BY <1>1, <1>2, AddSleeper DEF IInv, SleepInv
<1>4. CASE disp = "PSLEP" /\ runin
  <2>1. w[Sched] = RunIn
    BY <1>1, <1>2, <1>4 DEF IInv, SchedInv, SwapperArmed
  <2>2. /\ sleepq' = [sq EXCEPT ![sqhash[RunIn]] = Drop(@, Sched)]
        /\ p_wchan' = [w EXCEPT ![Sched] = NoChan]
        /\ p_stat' = [p_stat EXCEPT ![p] = "SSLEEP", ![Sched] = "SRUN"]
    BY <1>1, <1>2, <1>4 DEF TsSleep
  <2>3. \A q \in Proc : p_stat'[q] = "SSLEEP" <=> p_wchan'[q] # NoChan
    BY <1>1, <1>2, <2>2 DEF IInv, SleepInv
  <2> HIDE DEF sq, w
  <2>4. SleepqOK(sleepq', p_wchan')
    BY <1>3, <2>1, <2>2, DropSleeper
  <2> QED BY <2>3, <2>4 DEF SleepInv
<1>5. CASE ~ (disp = "PSLEP" /\ runin)
  <2>1. /\ sleepq' = sq /\ p_wchan' = w
        /\ p_stat' = [p_stat EXCEPT ![p] = "SSLEEP"]
    BY <1>5 DEF TsSleep
  <2>2. \A q \in Proc : p_stat'[q] = "SSLEEP" <=> p_wchan'[q] # NoChan
    BY <1>1, <1>2, <2>1 DEF IInv, SleepInv
  <2> QED BY <1>3, <2>1, <2>2 DEF SleepInv
<1> QED BY <1>4, <1>5

\* Every step keeps the sleep queues in order.
LEMMA SleepStep ==
    ASSUME IInv, [Next]_vars
    PROVE  SleepInv'
<1> USE Consts
<1>1. SleepInv /\ CpuInv /\ p_stat \in [Proc -> Stat] /\ curproc \in Proc
      /\ p_wchan \in [Proc -> Chan \cup {NoChan}]
  BY DEF IInv, TypeOK
<1>2. ASSUME UNCHANGED << p_stat, p_wchan, sleepq >>
      PROVE  SleepInv'
  BY <1>1, <1>2 DEF SleepInv
<1>3. ASSUME NEW p \in Proc, p_stat[p] # "SSLEEP", NEW s \in Stat \ {"SSLEEP"},
             p_stat' = [p_stat EXCEPT ![p] = s], UNCHANGED << p_wchan, sleepq >>
      PROVE  SleepInv'
  BY <1>1, <1>3 DEF SleepInv
<1>4. ASSUME NEW p \in Ts, ProcessStep(p)
      PROVE  SleepInv'
  <2>1. CASE Syscall(p)
    BY <1>2, <2>1 DEF Syscall, procVars, queueVars
  <2>2. ASSUME NEW ch \in IoChan, NEW start \in BOOLEAN, NEW disp \in SleepDisp,
               Request(p, ch, start, disp)
        PROVE  SleepInv'
    BY <1>2, <2>2 DEF Request, procVars, queueVars
  <2>3. ASSUME NEW ch \in IoChan, NEW np \in PostFlags, Post(p, ch, np)
        PROVE  SleepInv'
    BY <1>2, <2>3 DEF Post, procVars, queueVars
  <2>4. CASE WaitLoop(p)
    <3>1. CASE want[p] \in done
      BY <1>2, <2>4, <3>1 DEF WaitLoop, procVars, queueVars
    <3>2. CASE want[p] \notin done
      <4>1. want[p] \in Chan
        BY <2>4 DEF WaitLoop, IInv, EventInv, IoEvent
      <4> QED BY <2>4, <3>2, <4>1, TsSleepSleep DEF WaitLoop
    <3> QED BY <3>1, <3>2
  <2>5. ASSUME NEW q \in Ts, NEW new \in MinUpri .. 0, ts_parmsset(p, q, new)
        PROVE  SleepInv'
    BY <1>2, <2>5 DEF ts_parmsset
  <2>6. CASE TrapExit(p)
    BY <1>2, <2>6 DEF TrapExit, ts_preempt, procVars
  <2>7. CASE ts_trapret(p)
    BY <1>2, <2>7 DEF ts_trapret, queueVars
  <2>8. CASE s_trap(p)
    BY <1>2, <2>8 DEF s_trap, ts_preempt, procVars
  <2>9. CASE Exit(p)
    <3>1. p_stat[p] = "SONPROC"
      BY <1>1, <2>9 DEF Exit, Running, CpuInv, Executing
    <3> QED BY <1>3, <2>9, <3>1 DEF Exit, queueVars, Stat
  <2> QED
    BY <1>4, <2>1, <2>2, <2>3, <2>4, <2>5, <2>6, <2>7, <2>8, <2>9 DEF ProcessStep
<1>5. ASSUME SchedStep
      PROVE  SleepInv'
  <2>1. ASSUME NEW low \in MemLow, SchedWaitOut(low)
        PROVE  SleepInv'
    BY <2>1, SchedSleepSleep DEF SchedWaitOut, InSched
  <2>2. ASSUME NEW low \in MemLow, SchedUnload(low)
        PROVE  SleepInv'
    BY <1>2, <2>2 DEF SchedUnload, procVars, queueVars
  <2>3. ASSUME NEW low \in MemLow, NEW p \in Ts, SchedSwapin(p, low)
        PROVE  SleepInv'
    BY <1>2, <2>3 DEF SchedSwapin, procVars, queueVars
  <2>4. ASSUME NEW low \in MemLow, NEW ok \in BOOLEAN, SchedLoaded(ok, low)
        PROVE  SleepInv'
    BY <1>2, <2>4 DEF SchedLoaded
  <2>5. CASE SchedIo
    BY <2>5, SchedSleepSleep DEF SchedIo, InSched, IoEvent
  <2>6. CASE SchedUnloaded
    BY <1>2, <2>6 DEF SchedUnloaded, procVars, queueVars
  <2>7. CASE SchedWaitIn
    BY <2>7, SchedSleepSleep DEF SchedWaitIn, InSched
  <2>8. ASSUME NEW p \in Ts, SchedSwapout(p)
        PROVE  SleepInv'
    BY <1>2, <2>8 DEF SchedSwapout
  <2> QED
    BY <1>5, <2>1, <2>2, <2>3, <2>4, <2>5, <2>6, <2>7, <2>8 DEF SchedStep
<1>6. ASSUME SwitchStep
      PROVE  SleepInv'
  <2>1. CASE PswtchEnter
    <3>1. p_stat[curproc] = "SONPROC"
      BY <1>1, <2>1 DEF PswtchEnter, CpuInv, Executing
    <3> QED BY <1>1, <1>3, <2>1, <3>1 DEF PswtchEnter, queueVars, Stat
  <2>2. CASE PswtchIdle
    BY <1>2, <2>2 DEF PswtchIdle, procVars, queueVars
  <2>3. ASSUME NEW p \in Proc, PswtchPick(p)
        PROVE  SleepInv'
    <3>1. dq.max \in Pri /\ OnQueue(dq, p, dq.max)
      BY <2>3, QueuedFacts, FirstIsHighest DEF PswtchPick, IInv, QueueInv, QueueOK
    <3>2. p \in Queued
      BY <3>1 DEF IInv, QueueInv, QueueOK
    <3>3. p_stat[p] # "SSLEEP"
      BY <3>2, QueuedFacts
    <3> QED BY <1>3, <2>3, <3>3 DEF PswtchPick, Stat
  <2> QED BY <1>6, <2>1, <2>2, <2>3 DEF SwitchStep
<1>7. ASSUME LoopStep
      PROVE  SleepInv'
  <2>1. ASSUME NEW p \in Proc, WakeOne(p)
        PROVE  SleepInv'
    <3>1. p_wchan[p] \in Chan /\ p_wchan[p] = isr.chan
      BY <2>1 DEF WakeOne, IInv, SchedInv
    <3>2. SleepqOK(sleepq', p_wchan')
      BY <1>1, <2>1, <3>1, DropSleeper DEF WakeOne, SleepInv
    <3>3. \A q \in Proc : p_stat'[q] = "SSLEEP" <=> p_wchan'[q] # NoChan
      BY <1>1, <2>1 DEF WakeOne, SleepInv
    <3> QED BY <3>2, <3>3 DEF SleepInv
  <2>2. CASE WakeEnd
    <3>1. CASE isr.runsched
      BY <2>2, <3>1, SetrunSleep
         DEF WakeEnd, IInv, SchedInv, SwapperArmed, SleepInv
    <3>2. CASE ~ isr.runsched
      BY <1>2, <2>2, <3>2 DEF WakeEnd
    <3> QED BY <3>1, <3>2
  <2>3. CASE UpdateOne
    BY <1>2, <2>3 DEF UpdateOne
  <2>4. CASE UpdateEnd
    BY <1>2, <2>4 DEF UpdateEnd, procVars, queueVars
  <2> QED BY <1>7, <2>1, <2>2, <2>3, <2>4 DEF LoopStep
<1>8. ASSUME Interrupt
      PROVE  SleepInv'
  <2>1. ASSUME NEW ch \in IoChan \cup {SwapIo}, IoDone(ch)
        PROVE  SleepInv'
    BY <1>2, <2>1 DEF IoDone, procVars, queueVars
  <2>2. CASE Tick
    BY <1>2, <2>2 DEF Tick
  <2>3. CASE UpdateBegin
    BY <1>2, <2>3 DEF UpdateBegin, procVars, queueVars
  <2>4. ASSUME NEW low \in MemLow, EverySecond(low)
        PROVE  SleepInv'
    <3>1. p_stat[Sched] = "SSLEEP"
      BY <2>4 DEF EverySecond, SchedDue, IInv, SchedInv, SwapperArmed, SleepInv
    <3> QED BY <2>4, <3>1, SetrunSleep DEF EverySecond
  <2> QED BY <1>8, <2>1, <2>2, <2>3, <2>4 DEF Interrupt
<1>9. CASE UNCHANGED vars
  BY <1>2, <1>9 DEF vars, procVars, queueVars
<1> QED BY <1>4, <1>5, <1>6, <1>7, <1>8, <1>9 DEF Next

(***************************************************************************)
(* The memory scheduler waits for what its flags say.                      *)
(***************************************************************************)

\* What a process that has the processor is known not to do.
LEMMA RunningFacts ==
    ASSUME IInv, isr = NoIsr, cpu \in {"run", "runhi"}
    PROVE  /\ p_stat[curproc] = "SONPROC" /\ p_wchan[curproc] = NoChan
           /\ curproc = Sched => ~ runin /\ ~ runout
           /\ ~ isr.runsched /\ isr.op = "none"
  BY Consts DEF IInv, TypeOK, CpuInv, Executing, SleepInv, SchedInv, SwapperArmed, NoIsr

\* A sleeping proc_sched can only be there for what it waits for.
LEMMA SetrunSchedInv ==
    ASSUME IInv, SetrunSched, p_stat[Sched] = "SSLEEP", ~ runin', ~ runout',
           isr' = NoIsr, UNCHANGED << pc, nominee, sload >>
    PROVE  SchedInv'
  BY Consts DEF IInv, TypeOK, SchedInv, SwapperArmed, SetrunSched, NoIsr, Ts

\* Every step keeps the state of sched() and its wait flags together.
LEMMA SchedInvStep ==
    ASSUME IInv, [Next]_vars
    PROVE  SchedInv'
<1> USE Consts
<1>1. /\ SchedInv /\ p_stat \in [Proc -> Stat] /\ curproc \in Proc
      /\ p_wchan \in [Proc -> Chan \cup {NoChan}] /\ pc \in [Proc -> Place]
  BY DEF IInv, TypeOK
<1>2. ASSUME p_stat'[Sched] # "SZOMB", pc'[Sched] = pc[Sched],
             UNCHANGED << p_wchan, isr, runin, runout, nominee, sload >>
      PROVE  SchedInv'
  BY <1>1, <1>2 DEF SchedInv, SwapperArmed
<1>3. ASSUME NEW p \in Ts, ProcessStep(p)
      PROVE  SchedInv'
  <2>1. CASE Syscall(p)
    BY <1>1, <1>2, <2>1 DEF Syscall, procVars, swapVars, SchedInv
  <2>2. ASSUME NEW ch \in IoChan, NEW start \in BOOLEAN, NEW disp \in SleepDisp,
               Request(p, ch, start, disp)
        PROVE  SchedInv'
    BY <1>1, <1>2, <2>2 DEF Request, procVars, swapVars, SchedInv
  <2>3. ASSUME NEW ch \in IoChan, NEW np \in PostFlags, Post(p, ch, np)
        PROVE  SchedInv'
    BY <1>1, <2>3 DEF Post, procVars, swapVars, SchedInv, SwapperArmed, Running,
                      NoIsr, Wakeprocs, IoEvent
  <2>4. CASE WaitLoop(p)
    <3>1. CASE want[p] \in done
      BY <1>1, <1>2, <2>4, <3>1 DEF WaitLoop, procVars, swapVars, SchedInv
    <3>2. CASE want[p] \notin done
      <4>1. want[p] \in IoChan /\ p # Sched /\ p \in Proc
        BY <2>4 DEF WaitLoop, IInv, EventInv
      <4>2. PICK disp \in {"PRIBIO", "PSLEP"} : TsSleep(p, want[p], disp)
        BY <2>4, <3>2 DEF WaitLoop
      <4>3. UNCHANGED << pc, isr, nominee, sload, runout >>
        BY <2>4, <3>2, <4>2 DEF WaitLoop, TsSleep
      <4>4. isr = NoIsr
        BY <2>4 DEF WaitLoop, Running
      <4>5. p_stat'[Sched] # "SZOMB" /\ \A q \in Ts : p_wchan'[q] \in IoChan \cup {NoChan}
        BY <1>1, <4>1, <4>2 DEF TsSleep, SchedInv
      <4>6. SwapperArmed'
        <5>1. CASE disp = "PSLEP" /\ runin
          <6>1. p_wchan[Sched] = RunIn /\ ~ runout
            BY <1>1, <5>1 DEF SchedInv, SwapperArmed
          <6>2. p_wchan'[Sched] = NoChan /\ ~ runin' /\ runout' = runout
            BY <1>1, <4>2, <5>1 DEF TsSleep
          <6> QED BY <6>1, <6>2 DEF SwapperArmed
        <5>2. CASE ~ (disp = "PSLEP" /\ runin)
          <6>1. p_wchan'[Sched] = p_wchan[Sched] /\ runin' = runin /\ runout' = runout
            BY <1>1, <4>1, <4>2, <5>2 DEF TsSleep
          <6> QED BY <1>1, <6>1 DEF SchedInv, SwapperArmed
        <5> QED BY <5>1, <5>2
      <4> QED BY <1>1, <4>3, <4>4, <4>5, <4>6 DEF SchedInv, NoIsr
    <3> QED BY <3>1, <3>2
  <2>5. ASSUME NEW q \in Ts, NEW new \in MinUpri .. 0, ts_parmsset(p, q, new)
        PROVE  SchedInv'
    BY <1>1, <1>2, <2>5 DEF ts_parmsset, progVars, swapVars, SchedInv
  <2>6. CASE TrapExit(p)
    BY <1>1, <1>2, <2>6 DEF TrapExit, ts_preempt, procVars, swapVars, SchedInv
  <2>7. CASE ts_trapret(p)
    BY <1>1, <1>2, <2>7 DEF ts_trapret, procVars, swapVars, SchedInv
  <2>8. CASE s_trap(p)
    BY <1>1, <1>2, <2>8 DEF s_trap, ts_preempt, procVars, progVars, swapVars, SchedInv
  <2>9. CASE Exit(p)
    BY <1>1, <1>2, <2>9 DEF Exit, progVars, swapVars, SchedInv
  <2> QED
    BY <1>3, <2>1, <2>2, <2>3, <2>4, <2>5, <2>6, <2>7, <2>8, <2>9 DEF ProcessStep
<1>4. ASSUME SchedStep
      PROVE  SchedInv'
  <2> USE RunningFacts DEF InSched
  <2>1. ASSUME NEW low \in MemLow, SchedWaitOut(low)
        PROVE  SchedInv'
    BY <1>1, <2>1 DEF SchedWaitOut, SchedSleep, SchedInv, SwapperArmed, progVars, NoIsr
  <2>2. ASSUME NEW low \in MemLow, SchedUnload(low)
        PROVE  SchedInv'
    BY <1>1, <2>2 DEF SchedUnload, SchedInv, SwapperArmed, procVars, NoIsr
  <2>3. ASSUME NEW low \in MemLow, NEW p \in Ts, SchedSwapin(p, low)
        PROVE  SchedInv'
    BY <1>1, <2>3 DEF SchedSwapin, SwapinNominee, SchedInv, SwapperArmed, procVars, NoIsr
  <2>4. ASSUME NEW low \in MemLow, NEW ok \in BOOLEAN, SchedLoaded(ok, low)
        PROVE  SchedInv'
    <3>1. pc'[Sched] \notin {"swapin", "swapout"}
      BY <1>1, <2>4 DEF SchedLoaded
    <3> QED BY <1>1, <2>4, <3>1 DEF SchedLoaded, SchedInv, SwapperArmed, NoIsr
  <2>5. CASE SchedIo
    BY <1>1, <2>5 DEF SchedIo, SchedSleep, SchedInv, SwapperArmed, progVars, swapVars,
                      NoIsr, IoEvent
  <2>6. CASE SchedUnloaded
    BY <1>1, <2>6 DEF SchedUnloaded, SchedInv, SwapperArmed, procVars, NoIsr
  <2>7. CASE SchedWaitIn
    <3>1. UNCHANGED << runout, isr >> /\ runin' /\ pc'[Sched] = "loop"
      BY <1>1, <2>7 DEF SchedWaitIn
    <3> QED BY <1>1, <2>7, <3>1 DEF SchedWaitIn, SchedSleep, SchedInv, SwapperArmed, NoIsr
  <2>8. ASSUME NEW p \in Ts, SchedSwapout(p)
        PROVE  SchedInv'
    BY <1>1, <2>8 DEF SchedSwapout, SchedInv, SwapperArmed, NoIsr
  <2> QED
    BY <1>4, <2>1, <2>2, <2>3, <2>4, <2>5, <2>6, <2>7, <2>8 DEF SchedStep
<1>5. ASSUME SwitchStep
      PROVE  SchedInv'
  <2>1. CASE PswtchEnter
    BY <1>1, <1>2, <2>1 DEF PswtchEnter, progVars, swapVars, SchedInv
  <2>2. CASE PswtchIdle
    BY <1>1, <1>2, <2>2 DEF PswtchIdle, progVars, procVars, swapVars, SchedInv
  <2>3. ASSUME NEW p \in Proc, PswtchPick(p)
        PROVE  SchedInv'
    BY <1>1, <1>2, <2>3 DEF PswtchPick, progVars, swapVars, SchedInv
  <2> QED BY <1>5, <2>1, <2>2, <2>3 DEF SwitchStep
<1>6. ASSUME LoopStep
      PROVE  SchedInv'
  <2>1. ASSUME NEW p \in Proc, WakeOne(p)
        PROVE  SchedInv'
    <3>1. p_wchan[p] \in IoEvent
      BY <1>1, <2>1 DEF WakeOne, SchedInv
    <3>2. SwapperArmed'
      BY <1>1, <2>1, <3>1 DEF WakeOne, SchedInv, SwapperArmed, swapVars
    <3>3. p_stat'[Sched] # "SZOMB" /\ \A q \in Ts : p_wchan'[q] \in IoChan \cup {NoChan}
      BY <1>1, <2>1 DEF WakeOne, SchedInv
    <3>4. /\ isr'.op = "wakeprocs" /\ isr'.chan \in IoEvent
          /\ isr'.runsched => runout /\ runout' = runout
      BY <1>1, <2>1 DEF WakeOne, WantsSched, SchedInv, swapVars, IInv, TypeOK, IsrState
    <3> QED BY <1>1, <2>1, <3>2, <3>3, <3>4 DEF WakeOne, SchedInv, progVars, swapVars
  <2>2. CASE WakeEnd
    <3>1. CASE isr.runsched
      <4>1. p_stat[Sched] = "SSLEEP" /\ ~ runin /\ ~ runout'
        BY <1>1, <2>2, <3>1 DEF WakeEnd, SchedInv, SwapperArmed, IInv, SleepInv
      <4> QED BY <2>2, <3>1, <4>1, SetrunSchedInv DEF WakeEnd, progVars
    <3>2. CASE ~ isr.runsched
      BY <1>1, <2>2, <3>2 DEF WakeEnd, SchedInv, SwapperArmed, progVars, NoIsr
    <3> QED BY <3>1, <3>2
  <2>3. CASE UpdateOne
    <3>1. /\ isr'.op = "ts_update" /\ isr'.i # 0 /\ ~ isr'.runsched
      BY <1>1, <2>3 DEF UpdateOne, SchedInv, IInv, TypeOK, IsrState
    <3> QED BY <1>1, <2>3, <3>1 DEF UpdateOne, SchedInv, SwapperArmed, progVars, swapVars
  <2>4. CASE UpdateEnd
    BY <1>1, <2>4 DEF UpdateEnd, SchedInv, SwapperArmed, procVars, progVars, swapVars, NoIsr
  <2> QED BY <1>6, <2>1, <2>2, <2>3, <2>4 DEF LoopStep
<1>7. ASSUME Interrupt
      PROVE  SchedInv'
  <2>1. ASSUME NEW ch \in IoChan \cup {SwapIo}, IoDone(ch)
        PROVE  SchedInv'
    BY <1>1, <2>1 DEF IoDone, InterruptsOn, SchedInv, SwapperArmed, procVars, swapVars,
                      NoIsr, Wakeprocs, IoEvent
  <2>2. CASE Tick
    BY <1>1, <1>2, <2>2 DEF Tick, progVars, swapVars, SchedInv
  <2>3. CASE UpdateBegin
    BY <1>1, <2>3 DEF UpdateBegin, InterruptsOn, SchedInv, SwapperArmed, procVars, swapVars,
                      progVars, NoIsr, TsUpdate
  <2>4. ASSUME NEW low \in MemLow, EverySecond(low)
        PROVE  SchedInv'
    <3>1. p_stat[Sched] = "SSLEEP" /\ ~ runin' /\ ~ runout'
      BY <1>1, <2>4 DEF EverySecond, SchedDue, IInv, SchedInv, SwapperArmed, SleepInv
    <3> QED BY <2>4, <3>1, SetrunSchedInv DEF EverySecond, InterruptsOn, progVars
  <2> QED BY <1>7, <2>1, <2>2, <2>3, <2>4 DEF Interrupt
<1>8. CASE UNCHANGED vars
  BY <1>1, <1>2, <1>8 DEF vars, procVars, progVars, swapVars, SchedInv
<1> QED BY <1>3, <1>4, <1>5, <1>6, <1>7, <1>8 DEF Next

(***************************************************************************)
(* Nobody sleeps on what has happened.                                     *)
(***************************************************************************)

\* The end of wakeprocs(): nobody is left on the channel.
LEMMA WakeEndLeavesNone ==
    ASSUME IInv, WakeEnd
    PROVE  \A p \in Proc : p_wchan[p] # isr.chan
<1> SUFFICES ASSUME NEW p \in Proc, p_wchan[p] = isr.chan PROVE FALSE
  OBVIOUS
<1>1. isr.chan \in Chan
  BY Consts DEF WakeEnd, IInv, SchedInv
<1>2. Holds(sleepq[sqhash[isr.chan]], p)
  BY <1>1, DispatchAssumption DEF DispatchAssumption, IInv, SleepInv, SleepqOK
<1> QED BY <1>2 DEF WakeEnd, NoneLeft, Holds

\* No step leaves anybody asleep for an event that has happened.
LEMMA EventStep ==
    ASSUME IInv, [Next]_vars
    PROVE  EventInv'
<1> USE Consts
<1>1. /\ EventInv /\ SchedInv /\ done \subseteq IoEvent
      /\ p_wchan \in [Proc -> Chan \cup {NoChan}] /\ pc \in [Proc -> Place]
      /\ want \in [Proc -> Chan \cup {NoChan}]
  BY DEF IInv, TypeOK, EventInv
<1>2. ASSUME done' \subseteq done, isr'.op = isr.op, isr'.chan = isr.chan,
             \A q \in Proc : p_wchan'[q] = p_wchan[q] \/ p_wchan'[q] \notin done,
             \A q \in Ts : pc'[q] \in {"wait", "biowait"} =>
                 want'[q] \in IoChan \/ (pc[q] = pc'[q] /\ want'[q] = want[q])
      PROVE  EventInv'
  BY <1>1, <1>2 DEF EventInv
<1>3. ASSUME UNCHANGED << done, isr, p_wchan, pc, want >>
      PROVE  EventInv'
  BY <1>2, <1>3
<1>4. NoChan \notin done
  BY <1>1
<1>5. ASSUME NEW p \in Ts, ProcessStep(p)
      PROVE  EventInv'
  <2>1. CASE Syscall(p)
    BY <1>1, <1>2, <2>1 DEF Syscall, procVars
  <2>2. ASSUME NEW ch \in IoChan, NEW start \in BOOLEAN, NEW disp \in SleepDisp,
               Request(p, ch, start, disp)
        PROVE  EventInv'
    <3>1. /\ done' \subseteq done /\ UNCHANGED << p_wchan, isr >>
          /\ \A q \in Ts : want'[q] = IF q = p THEN ch ELSE want[q]
          /\ \A q \in Ts : q # p => pc'[q] = pc[q]
      BY <1>1, <2>2 DEF Request, procVars
    <3> QED BY <1>2, <3>1
  <2>3. ASSUME NEW ch \in IoChan, NEW np \in PostFlags, Post(p, ch, np)
        PROVE  EventInv'
    BY <1>1, <2>3 DEF Post, Running, Wakeprocs, NoIsr, procVars, EventInv, IoEvent
  <2>4. CASE WaitLoop(p)
    <3>1. CASE want[p] \in done
      <4>1. UNCHANGED << done, isr, p_wchan >>
        BY <2>4, <3>1 DEF WaitLoop, procVars
      <4>2. \A q \in Ts : pc'[q] \in {"wait", "biowait"} =>
                pc[q] = pc'[q] /\ want'[q] = want[q]
        BY <1>1, <2>4, <3>1 DEF WaitLoop
      <4> QED BY <1>2, <4>1, <4>2
    <3>2. CASE want[p] \notin done
      <4>1. UNCHANGED << done, isr, pc, want >>
        BY <2>4, <3>2 DEF WaitLoop
      <4>2. \A q \in Proc : p_wchan'[q] \in {p_wchan[q], NoChan, want[p]}
        BY <1>1, <2>4, <3>2 DEF WaitLoop, TsSleep
      <4> QED BY <1>2, <1>4, <3>2, <4>1, <4>2
    <3> QED BY <3>1, <3>2
  <2>5. ASSUME NEW q \in Ts, NEW new \in MinUpri .. 0, ts_parmsset(p, q, new)
        PROVE  EventInv'
    BY <1>3, <2>5 DEF ts_parmsset, progVars
  <2>6. CASE TrapExit(p)
    BY <1>1, <1>2, <2>6 DEF TrapExit, ts_preempt, procVars
  <2>7. CASE ts_trapret(p)
    BY <1>1, <1>2, <2>7 DEF ts_trapret, procVars
  <2>8. CASE s_trap(p)
    BY <1>3, <2>8 DEF s_trap, ts_preempt, procVars, progVars
  <2>9. CASE Exit(p)
    BY <1>3, <2>9 DEF Exit, progVars
  <2> QED
    BY <1>5, <2>1, <2>2, <2>3, <2>4, <2>5, <2>6, <2>7, <2>8, <2>9 DEF ProcessStep
<1>6. ASSUME NEW ch \in Chan \ done, NEW disp, SchedSleep(ch, disp),
             UNCHANGED << done, isr, want >>, \A q \in Ts : pc'[q] = pc[q]
      PROVE  EventInv'
  <2>1. \A q \in Proc : p_wchan'[q] \in {p_wchan[q], ch}
    BY <1>1, <1>6 DEF SchedSleep
  <2> QED BY <1>2, <1>6, <2>1
<1>7. ASSUME SchedStep
      PROVE  EventInv'
  <2>1. ASSUME NEW low \in MemLow, SchedWaitOut(low)
        PROVE  EventInv'
    BY <1>1, <1>6, <2>1 DEF SchedWaitOut, progVars
  <2>2. ASSUME NEW low \in MemLow, SchedUnload(low)
        PROVE  EventInv'
    BY <1>1, <1>2, <2>2 DEF SchedUnload, procVars
  <2>3. ASSUME NEW low \in MemLow, NEW p \in Ts, SchedSwapin(p, low)
        PROVE  EventInv'
    BY <1>1, <1>2, <2>3 DEF SchedSwapin, procVars
  <2>4. ASSUME NEW low \in MemLow, NEW ok \in BOOLEAN, SchedLoaded(ok, low)
        PROVE  EventInv'
    <3>1. \A q \in Ts : pc'[q] = pc[q]
      BY <1>1, <2>4 DEF SchedLoaded
    <3> QED BY <1>2, <2>4, <3>1 DEF SchedLoaded
  <2>5. CASE SchedIo
    BY <1>6, <2>5 DEF SchedIo, progVars, IoEvent
  <2>6. CASE SchedUnloaded
    BY <1>1, <1>2, <2>6 DEF SchedUnloaded, procVars
  <2>7. CASE SchedWaitIn
    <3>1. UNCHANGED << done, isr, want >> /\ \A q \in Ts : pc'[q] = pc[q]
      BY <1>1, <2>7 DEF SchedWaitIn
    <3> QED BY <1>1, <1>6, <2>7, <3>1 DEF SchedWaitIn
  <2>8. ASSUME NEW p \in Ts, SchedSwapout(p)
        PROVE  EventInv'
    BY <1>1, <1>2, <2>8 DEF SchedSwapout
  <2> QED
    BY <1>7, <2>1, <2>2, <2>3, <2>4, <2>5, <2>6, <2>7, <2>8 DEF SchedStep
<1>8. ASSUME SwitchStep
      PROVE  EventInv'
  <2>1. CASE PswtchEnter
    BY <1>3, <2>1 DEF PswtchEnter, progVars
  <2>2. CASE PswtchIdle
    BY <1>3, <2>2 DEF PswtchIdle, progVars, procVars
  <2>3. ASSUME NEW p \in Proc, PswtchPick(p)
        PROVE  EventInv'
    BY <1>3, <2>3 DEF PswtchPick, progVars
  <2> QED BY <1>8, <2>1, <2>2, <2>3 DEF SwitchStep
<1>9. ASSUME LoopStep
      PROVE  EventInv'
  <2>1. ASSUME NEW p \in Proc, WakeOne(p)
        PROVE  EventInv'
    <3>1. \A q \in Proc : p_wchan'[q] \in {p_wchan[q], NoChan}
      BY <1>1, <2>1 DEF WakeOne
    <3>2. isr'.op = isr.op /\ isr'.chan = isr.chan
      BY <2>1 DEF WakeOne, IInv, TypeOK, IsrState
    <3> QED BY <1>2, <1>4, <2>1, <3>1, <3>2 DEF WakeOne, progVars
  <2>2. CASE WakeEnd
    <3>1. UNCHANGED << done, pc, want >>
      BY <2>2 DEF WakeEnd, progVars
    <3>2. \A q \in Proc : p_wchan'[q] \in {p_wchan[q], NoChan}
      <4>1. CASE isr.runsched
        BY <1>1, <2>2, <4>1 DEF WakeEnd, SetrunSched
      <4>2. CASE ~ isr.runsched
        BY <2>2, <4>2 DEF WakeEnd
      <4> QED BY <4>1, <4>2
    <3>3. \A q \in Proc : p_wchan[q] \notin done
      BY <1>1, <2>2, WakeEndLeavesNone DEF EventInv
    <3>4. \A q \in Proc : p_wchan'[q] \notin done'
      BY <1>4, <3>1, <3>2, <3>3
    <3> QED BY <1>1, <3>1, <3>4 DEF EventInv
  <2>3. CASE UpdateOne
    <3>1. isr'.op = isr.op /\ isr'.chan = isr.chan
      BY <2>3 DEF UpdateOne, IInv, TypeOK, IsrState
    <3> QED BY <1>2, <2>3, <3>1 DEF UpdateOne, progVars
  <2>4. CASE UpdateEnd
    BY <1>1, <2>4 DEF UpdateEnd, EventInv, progVars, procVars
  <2> QED BY <1>9, <2>1, <2>2, <2>3, <2>4 DEF LoopStep
<1>10. ASSUME Interrupt
       PROVE  EventInv'
  <2>1. ASSUME NEW ch \in IoChan \cup {SwapIo}, IoDone(ch)
        PROVE  EventInv'
    BY <1>1, <2>1 DEF IoDone, InterruptsOn, Wakeprocs, NoIsr, procVars, EventInv, IoEvent
  <2>2. CASE Tick
    BY <1>3, <2>2 DEF Tick, progVars
  <2>3. CASE UpdateBegin
    BY <1>1, <2>3 DEF UpdateBegin, InterruptsOn, NoIsr, EventInv, procVars, progVars
  <2>4. ASSUME NEW low \in MemLow, EverySecond(low)
        PROVE  EventInv'
    <3>1. \A q \in Proc : p_wchan'[q] \in {p_wchan[q], NoChan}
      BY <1>1, <2>4 DEF EverySecond, SetrunSched
    <3> QED BY <1>2, <1>4, <2>4, <3>1 DEF EverySecond, progVars
  <2> QED BY <1>10, <2>1, <2>2, <2>3, <2>4 DEF Interrupt
<1>11. CASE UNCHANGED vars
  BY <1>3, <1>11 DEF vars, procVars, progVars
<1> QED BY <1>5, <1>7, <1>8, <1>9, <1>10, <1>11 DEF Next

(***************************************************************************)
(* The memory scheduler waits only while nobody is runnable and out.       *)
(***************************************************************************)

\* No step leaves sched() asleep while there is somebody to load.
LEMMA NomineeStep ==
    ASSUME IInv, [Next]_vars
    PROVE  NomineeInv'
<1> USE Consts
<1>1. /\ NomineeInv /\ SchedInv /\ p_stat \in [Proc -> Stat] /\ curproc \in Proc
  BY DEF IInv, TypeOK
<1>2. ASSUME runout' => runout, SomeNominee' => SomeNominee, isr.runsched => isr'.runsched
      PROVE  NomineeInv'
  BY <1>1, <1>2 DEF NomineeInv
<1>3. ASSUME UNCHANGED << runout, p_stat, sload, isr >>
      PROVE  NomineeInv'
  BY <1>2, <1>3 DEF SomeNominee
<1>4. ASSUME \A q \in Ts : p_stat'[q] = "SRUN" => p_stat[q] = "SRUN" \/ q \in sload,
             UNCHANGED << sload, isr, runout >>
      PROVE  NomineeInv'
  BY <1>2, <1>4 DEF SomeNominee
<1>5. ASSUME NEW p \in Ts, ProcessStep(p)
      PROVE  NomineeInv'
  <2>1. CASE Syscall(p)
    BY <1>3, <2>1 DEF Syscall, procVars, swapVars
  <2>2. ASSUME NEW ch \in IoChan, NEW start \in BOOLEAN, NEW disp \in SleepDisp,
               Request(p, ch, start, disp)
        PROVE  NomineeInv'
    BY <1>3, <2>2 DEF Request, procVars, swapVars
  <2>3. ASSUME NEW ch \in IoChan, NEW np \in PostFlags, Post(p, ch, np)
        PROVE  NomineeInv'
    BY <1>1, <2>3 DEF Post, Running, NoIsr, NomineeInv, SomeNominee, procVars, swapVars
  <2>4. CASE WaitLoop(p)
    <3>1. CASE want[p] \in done
      BY <1>3, <2>4, <3>1 DEF WaitLoop, procVars, swapVars
    <3>2. CASE want[p] \notin done
      <4>1. UNCHANGED << isr, sload, runout >>
        BY <2>4, <3>2 DEF WaitLoop, TsSleep
      <4>2. \A q \in Ts : p_stat'[q] \in {p_stat[q], "SSLEEP"}
        BY <1>1, <2>4, <3>2 DEF WaitLoop, TsSleep
      <4> QED BY <1>4, <4>1, <4>2
    <3> QED BY <3>1, <3>2
  <2>5. ASSUME NEW q \in Ts, NEW new \in MinUpri .. 0, ts_parmsset(p, q, new)
        PROVE  NomineeInv'
    BY <1>3, <2>5 DEF ts_parmsset, swapVars
  <2>6. CASE TrapExit(p)
    BY <1>3, <2>6 DEF TrapExit, ts_preempt, procVars, swapVars
  <2>7. CASE ts_trapret(p)
    BY <1>3, <2>7 DEF ts_trapret, swapVars
  <2>8. CASE s_trap(p)
    BY <1>3, <2>8 DEF s_trap, ts_preempt, procVars, swapVars
  <2>9. CASE Exit(p)
    BY <1>1, <1>4, <2>9 DEF Exit, swapVars
  <2> QED
    BY <1>5, <2>1, <2>2, <2>3, <2>4, <2>5, <2>6, <2>7, <2>8, <2>9 DEF ProcessStep
<1>6. ASSUME SchedStep
      PROVE  NomineeInv'
  <2> USE RunningFacts DEF InSched
  <2>1. ASSUME NEW low \in MemLow, SchedWaitOut(low)
        PROVE  NomineeInv'
    <3>1. \A q \in Ts : p_stat'[q] = p_stat[q]
      BY <1>1, <2>1 DEF SchedWaitOut, SchedSleep
    <3> QED BY <2>1, <3>1 DEF SchedWaitOut, NomineeInv, SomeNominee
  <2>2. ASSUME NEW low \in MemLow, SchedUnload(low)
        PROVE  NomineeInv'
    BY <1>3, <2>2 DEF SchedUnload, procVars
  <2>3. ASSUME NEW low \in MemLow, NEW p \in Ts, SchedSwapin(p, low)
        PROVE  NomineeInv'
    BY <1>3, <2>3 DEF SchedSwapin, procVars
  <2>4. ASSUME NEW low \in MemLow, NEW ok \in BOOLEAN, SchedLoaded(ok, low)
        PROVE  NomineeInv'
    <3>1. ~ runout /\ UNCHANGED runout
      BY <2>4 DEF SchedLoaded
    <3> QED BY <3>1 DEF NomineeInv
  <2>5. CASE SchedIo
    <3>1. ~ runout /\ UNCHANGED runout
      BY <2>5 DEF SchedIo, swapVars
    <3> QED BY <3>1 DEF NomineeInv
  <2>6. CASE SchedUnloaded
    BY <1>3, <2>6 DEF SchedUnloaded, procVars
  <2>7. CASE SchedWaitIn
    <3>1. ~ runout /\ UNCHANGED runout
      BY <2>7 DEF SchedWaitIn
    <3> QED BY <3>1 DEF NomineeInv
  <2>8. ASSUME NEW p \in Ts, SchedSwapout(p)
        PROVE  NomineeInv'
    <3>1. ~ runout /\ UNCHANGED runout
      BY <2>8 DEF SchedSwapout
    <3> QED BY <3>1 DEF NomineeInv
  <2> QED
    BY <1>6, <2>1, <2>2, <2>3, <2>4, <2>5, <2>6, <2>7, <2>8 DEF SchedStep
<1>7. ASSUME SwitchStep
      PROVE  NomineeInv'
  <2>1. CASE PswtchEnter
    <3>1. curproc \in Schedulable
      BY <2>1 DEF PswtchEnter, IInv, CpuInv, Executing
    <3> QED BY <1>1, <1>4, <2>1, <3>1 DEF PswtchEnter, swapVars, Schedulable
  <2>2. CASE PswtchIdle
    BY <1>3, <2>2 DEF PswtchIdle, swapVars, procVars
  <2>3. ASSUME NEW p \in Proc, PswtchPick(p)
        PROVE  NomineeInv'
    BY <1>1, <1>4, <2>3 DEF PswtchPick, swapVars
  <2> QED BY <1>7, <2>1, <2>2, <2>3 DEF SwitchStep
<1>8. ASSUME LoopStep
      PROVE  NomineeInv'
  <2>1. ASSUME NEW p \in Proc, WakeOne(p)
        PROVE  NomineeInv'
    <3>1. isr'.runsched = (isr.runsched \/ (p \notin sload /\ runout))
      BY <2>1 DEF WakeOne, WantsSched, IInv, TypeOK, IsrState
    <3>2. \A q \in Ts : q # p => p_stat'[q] = p_stat[q]
      BY <1>1, <2>1 DEF WakeOne
    <3>3. UNCHANGED << runout, sload >>
      BY <2>1 DEF WakeOne, swapVars
    <3> QED BY <1>1, <3>1, <3>2, <3>3 DEF NomineeInv, SomeNominee
  <2>2. CASE WakeEnd
    <3>1. CASE isr.runsched
      BY <2>2, <3>1 DEF WakeEnd, NomineeInv
    <3>2. CASE ~ isr.runsched
      BY <1>1, <2>2, <3>2 DEF WakeEnd, NomineeInv, SomeNominee
    <3> QED BY <3>1, <3>2
  <2>3. CASE UpdateOne
    <3>1. isr'.runsched = isr.runsched
      BY <2>3 DEF UpdateOne, IInv, TypeOK, IsrState
    <3> QED BY <1>2, <2>3, <3>1 DEF UpdateOne, swapVars, SomeNominee
  <2>4. CASE UpdateEnd
    BY <1>1, <2>4 DEF UpdateEnd, SchedInv, NomineeInv, SomeNominee, swapVars, procVars
  <2> QED BY <1>8, <2>1, <2>2, <2>3, <2>4 DEF LoopStep
<1>9. ASSUME Interrupt
      PROVE  NomineeInv'
  <2>1. ASSUME NEW ch \in IoChan \cup {SwapIo}, IoDone(ch)
        PROVE  NomineeInv'
    BY <1>1, <2>1 DEF IoDone, InterruptsOn, NoIsr, NomineeInv, SomeNominee, procVars, swapVars
  <2>2. CASE Tick
    BY <1>3, <2>2 DEF Tick, swapVars
  <2>3. CASE UpdateBegin
    BY <1>1, <2>3 DEF UpdateBegin, InterruptsOn, NoIsr, NomineeInv, SomeNominee,
                      procVars, swapVars
  <2>4. ASSUME NEW low \in MemLow, EverySecond(low)
        PROVE  NomineeInv'
    <3>1. \A q \in Ts : p_stat'[q] = p_stat[q]
      BY <1>1, <2>4 DEF EverySecond, SetrunSched
    <3>2. UNCHANGED << sload, isr >> /\ (runout' => runout)
      BY <2>4 DEF EverySecond
    <3> QED BY <1>2, <3>1, <3>2 DEF SomeNominee
  <2> QED BY <1>9, <2>1, <2>2, <2>3, <2>4 DEF Interrupt
<1>10. CASE UNCHANGED vars
  BY <1>3, <1>10 DEF vars, procVars, swapVars
<1> QED BY <1>5, <1>6, <1>7, <1>8, <1>9, <1>10 DEF Next

(***************************************************************************)
(* Types.                                                                  *)
(***************************************************************************)

\* What the tables of the classes return.
LEMMA Tables ==
    /\ \A cp \in Umd : TqExp[cp] \in Umd /\ SlpRet[cp] \in Umd /\ LWait[cp] \in Umd
    /\ \A u \in Umd : Quantum[u] \in Int
    /\ \A disp \in Disp : KmdPri[disp] \in Pri /\ SysPri[disp] \in Pri
    /\ \A cp \in Umd, up \in MinUpri .. 0 : umdpri(cp, up) \in Umd /\ umdpri(cp, up) \in Pri
    /\ Disp = {"PSWP", "PRIBIO", "PSLEP"}
<1>1. /\ TqExp \in [Umd -> Umd] /\ SlpRet \in [Umd -> Umd] /\ LWait \in [Umd -> Umd]
      /\ Quantum \in [Umd -> Nat \ {0}]
      /\ KmdPri \in [Disp -> Pri] /\ SysPri \in [Disp -> Pri]
  BY DispatchAssumption DEF DispatchAssumption
<1>2. \A cp \in Umd : TqExp[cp] \in Umd /\ SlpRet[cp] \in Umd /\ LWait[cp] \in Umd
  BY <1>1
<1>3. \A u \in Umd : Quantum[u] \in Int
  BY <1>1
<1>4. \A disp \in Disp : KmdPri[disp] \in Pri /\ SysPri[disp] \in Pri
  BY <1>1
<1>5. \A cp \in Umd, up \in MinUpri .. 0 : umdpri(cp, up) \in Umd /\ umdpri(cp, up) \in Pri
  BY UmdpriType
<1> QED BY <1>2, <1>3, <1>4, <1>5 DEF Disp

\* The fields of a time-sharing process that ts.c computes for it.
Retyped ==
    /\ p_pri' \in [Proc -> Pri] /\ curpri' \in Pri /\ cpupri' \in [Ts -> Umd]
    /\ timeleft' \in [Ts -> Int] /\ dispwait' \in [Ts -> Nat]
    /\ tskpri' \subseteq Ts /\ tsbackq' \subseteq Ts

\* A step that gives each field a value of its type keeps TypeOK.
LEMMA RetypedFields ==
    ASSUME TypeOK, NEW p \in Ts, NEW cp \in Umd, NEW u \in Pri, NEW t \in Int, NEW w \in Nat,
           p_pri' \in {p_pri, [p_pri EXCEPT ![p] = u]}, curpri' \in {curpri, u},
           cpupri' \in {cpupri, [cpupri EXCEPT ![p] = cp]},
           timeleft' \in {timeleft, [timeleft EXCEPT ![p] = t]},
           dispwait' \in {dispwait, [dispwait EXCEPT ![p] = w]},
           tskpri' \in {tskpri, tskpri \ {p}}, tsbackq' \in {tsbackq, tsbackq \cup {p}}
    PROVE  Retyped
<1>1. p \in Proc /\ TypeOK
  BY Consts
<1>2. p_pri' \in [Proc -> Pri]
  <2>1. p_pri \in [Proc -> Pri] /\ [p_pri EXCEPT ![p] = u] \in [Proc -> Pri]
    BY <1>1 DEF TypeOK
  <2> QED BY <2>1
<1> curpri' \in Pri /\ cpupri' \in [Ts -> Umd]
  <2>1. cpupri \in [Ts -> Umd] /\ [cpupri EXCEPT ![p] = cp] \in [Ts -> Umd] /\ curpri \in Pri
    BY <1>1 DEF TypeOK
  <2> QED BY <2>1
<1>3. timeleft' \in [Ts -> Int]
  BY <1>1 DEF TypeOK
<1>4. dispwait' \in [Ts -> Nat]
  BY <1>1 DEF TypeOK
<1>5. tskpri' \subseteq Ts /\ tsbackq' \subseteq Ts
  BY <1>1 DEF TypeOK
<1> QED BY <1>2, <1>3, <1>4, <1>5 DEF Retyped

\* Every step keeps the types.
LEMMA TypeStep ==
    ASSUME IInv, [Next]_vars, QueueInv', SleepInv'
    PROVE  TypeOK'
<1> USE Consts
<1>1. dq' \in Dispq /\ sleepq' \in [0 .. NSleepq - 1 -> Seq(Proc)]
  BY DEF QueueInv, QueueOK, Sound, SleepInv, SleepqOK
<1>2. TypeOK
  BY DEF IInv
<1>3. ASSUME NEW p \in Ts, ProcessStep(p)
      PROVE  TypeOK'
  <2>1. CASE Syscall(p)
    BY <1>1, <1>2, <2>1
       DEF Syscall, TypeOK, Place, procVars, cpuVars, swapVars, tsVars
  <2>2. ASSUME NEW ch \in IoChan, NEW start \in BOOLEAN, NEW disp \in SleepDisp,
               Request(p, ch, start, disp)
        PROVE  TypeOK'
    BY <1>1, <1>2, <2>2
       DEF Request, TypeOK, Place, procVars, cpuVars, swapVars, tsVars, IoEvent
  <2>3. ASSUME NEW ch \in IoChan, NEW np \in PostFlags, Post(p, ch, np)
        PROVE  TypeOK'
    <3>1. ch \in Chan /\ np \in BOOLEAN
      BY DispatchAssumption DEF DispatchAssumption, IoEvent
    <3>2. isr' \in IsrState
      BY <2>3, <3>1 DEF Post, Wakeprocs, NoIsr, IsrState
    <3> QED BY <1>1, <1>2, <2>3, <3>1, <3>2
            DEF Post, TypeOK, procVars, cpuVars, swapVars, tsVars
  <2>4. CASE WaitLoop(p)
    <3>1. CASE want[p] \in done
      BY <1>1, <1>2, <2>4, <3>1
         DEF WaitLoop, TypeOK, Place, procVars, cpuVars, swapVars, tsVars
    <3>2. CASE want[p] \notin done
      <4>1. want[p] \in Chan
        BY <2>4 DEF WaitLoop, IInv, EventInv, IoEvent
      <4>2. PICK disp \in {"PRIBIO", "PSLEP"} : TsSleep(p, want[p], disp)
        BY <2>4, <3>2 DEF WaitLoop
      <4>3. KmdPri[disp] \in Pri
        BY Tables
      <4>4. /\ p_stat' \in [Proc -> Stat] /\ p_wchan' \in [Proc -> Chan \cup {NoChan}]
            /\ p_pri' \in [Proc -> Pri]
            /\ runin' \in BOOLEAN /\ runrun' \in BOOLEAN
        BY <1>2, <4>1, <4>2, <4>3 DEF TsSleep, TypeOK, Stat
      <4> QED BY <1>1, <1>2, <2>4, <3>2, <4>2, <4>4 DEF WaitLoop, TsSleep, TypeOK, CpuState
    <3> QED BY <3>1, <3>2
  <2>5. ASSUME NEW q \in Ts, NEW new \in MinUpri .. 0, ts_parmsset(p, q, new)
        PROVE  TypeOK'
    <3>1. cpupri[q] \in Umd /\ umdpri(cpupri[q], new) \in Umd
          /\ umdpri(cpupri[q], new) \in Pri
          /\ Quantum[umdpri(cpupri[q], new)] \in Int
      BY <1>2, Tables DEF TypeOK
    <3>2. Retyped
      <4>1. /\ p_pri' \in {p_pri, [p_pri EXCEPT ![q] = umdpri(cpupri[q], new)]}
            /\ curpri' \in {curpri, umdpri(cpupri[q], new)}
            /\ timeleft' \in {timeleft,
                   [timeleft EXCEPT ![q] = Quantum[umdpri(cpupri[q], new)]]}
            /\ dispwait' \in {dispwait, [dispwait EXCEPT ![q] = 0]}
            /\ tsbackq' \in {tsbackq, tsbackq \cup {q}}
            /\ UNCHANGED << cpupri, tskpri >>
        BY <2>5 DEF ts_parmsset
      <4> QED BY <1>2, <3>1, <4>1, RetypedFields
    <3>3. upri' \in [Ts -> MinUpri .. 0] /\ runrun' \in BOOLEAN
      BY <1>2, <2>5 DEF ts_parmsset, TypeOK
    <3>4. UNCHANGED << p_stat, p_wchan, sload, curproc, npwakecnt, swapVars, progVars, cpu, isr >>
      BY <2>5 DEF ts_parmsset
    <3> QED BY <1>1, <1>2, <3>2, <3>3, <3>4 DEF Retyped, TypeOK, swapVars, progVars
  <2>6. ASSUME ts_preempt(p), pc' \in [Proc -> Place], UNCHANGED << done, want >>
        PROVE  TypeOK'
    <3>1. Quantum[umdpri(cpupri[p], upri[p])] \in Int
      BY <1>2, Tables DEF TypeOK
    <3> QED BY <1>1, <1>2, <2>6, <3>1
            DEF ts_preempt, TypeOK, CpuState, procVars, cpuVars, swapVars
  <2>7. CASE TrapExit(p)
    BY <1>2, <2>6, <2>7 DEF TrapExit, TypeOK, Place
  <2>8. CASE ts_trapret(p)
    <3> DEFINE cp == SlpRet[cpupri[p]]
               u == umdpri(cp, upri[p])
    <3>1. cp \in Umd /\ u \in Umd /\ u \in Pri /\ Quantum[u] \in Int
      BY <1>2, Tables DEF TypeOK
    <3>2. Retyped
      <4>1. /\ p_pri' \in {p_pri, [p_pri EXCEPT ![p] = u]} /\ curpri' \in {curpri, u}
            /\ cpupri' \in {cpupri, [cpupri EXCEPT ![p] = cp]}
            /\ timeleft' \in {timeleft, [timeleft EXCEPT ![p] = Quantum[u]]}
            /\ dispwait' \in {dispwait, [dispwait EXCEPT ![p] = 0]}
            /\ tskpri' \in {tskpri, tskpri \ {p}} /\ tsbackq' = tsbackq
        BY <2>8 DEF ts_trapret
      <4> HIDE DEF cp, u
      <4> QED BY <1>2, <3>1, <4>1, RetypedFields
    <3>3. pc' \in [Proc -> Place] /\ runrun' \in BOOLEAN
      BY <1>2, <2>8 DEF ts_trapret, TypeOK, Place
    <3> QED BY <1>1, <1>2, <2>8, <3>2, <3>3 DEF ts_trapret, Retyped, TypeOK, queueVars, swapVars
  <2>9. CASE s_trap(p)
    BY <1>2, <2>6, <2>9 DEF s_trap, TypeOK, progVars
  <2>10. CASE Exit(p)
    BY <1>1, <1>2, <2>10 DEF Exit, TypeOK, Stat, CpuState, cpuVars, swapVars, tsVars, progVars
  <2> QED
    BY <1>3, <2>1, <2>2, <2>3, <2>4, <2>5, <2>7, <2>8, <2>9, <2>10 DEF ProcessStep
<1>4. ASSUME NEW ch \in Chan, NEW disp \in Disp, SchedSleep(ch, disp)
      PROVE  /\ p_stat' \in [Proc -> Stat] /\ p_wchan' \in [Proc -> Chan \cup {NoChan}]
             /\ p_pri' \in [Proc -> Pri] /\ cpu' \in CpuState
  BY <1>2, <1>4, Tables DEF SchedSleep, TypeOK, Stat, CpuState
<1>5. ASSUME SchedStep
      PROVE  TypeOK'
  <2>1. ASSUME NEW low \in MemLow, SchedWaitOut(low)
        PROVE  TypeOK'
    BY <1>1, <1>2, <1>4, <2>1 DEF SchedWaitOut, TypeOK, Disp, cpuVars, tsVars, progVars
  <2>2. ASSUME NEW low \in MemLow, SchedUnload(low)
        PROVE  TypeOK'
    BY <1>1, <1>2, <2>2 DEF SchedUnload, TypeOK, Place, CpuState, procVars, cpuVars, tsVars
  <2>3. ASSUME NEW low \in MemLow, NEW p \in Ts, SchedSwapin(p, low)
        PROVE  TypeOK'
    BY <1>1, <1>2, <2>3 DEF SchedSwapin, TypeOK, Place, procVars, cpuVars, tsVars
  <2>4. ASSUME NEW low \in MemLow, NEW ok \in BOOLEAN, SchedLoaded(ok, low)
        PROVE  TypeOK'
    <3>1. nominee \in Ts
      BY <2>4 DEF SchedLoaded, InSched, IInv, SchedInv
    <3> QED BY <1>1, <1>2, <2>4, <3>1
            DEF SchedLoaded, TypeOK, Place, CpuState, cpuVars, tsVars
  <2>5. CASE SchedIo
    BY <1>1, <1>2, <1>4, <2>5 DEF SchedIo, TypeOK, Disp, IoEvent, cpuVars, swapVars,
                                  tsVars, progVars
  <2>6. CASE SchedUnloaded
    BY <1>1, <1>2, <2>6 DEF SchedUnloaded, TypeOK, Place, procVars, cpuVars, tsVars
  <2>7. CASE SchedWaitIn
    <3>1. sload' \subseteq Proc
      BY <1>2, <2>7 DEF SchedWaitIn, InSched, IInv, SchedInv, TypeOK
    <3> QED BY <1>1, <1>2, <1>4, <2>7, <3>1
            DEF SchedWaitIn, TypeOK, Place, Disp, cpuVars, tsVars
  <2>8. ASSUME NEW p \in Ts, SchedSwapout(p)
        PROVE  TypeOK'
    BY <1>1, <1>2, <2>8 DEF SchedSwapout, TypeOK, Place, CpuState, cpuVars, tsVars
  <2> QED
    BY <1>5, <2>1, <2>2, <2>3, <2>4, <2>5, <2>6, <2>7, <2>8 DEF SchedStep
<1>6. ASSUME SwitchStep
      PROVE  TypeOK'
  <2>1. CASE PswtchEnter
    BY <1>1, <1>2, <2>1 DEF PswtchEnter, TypeOK, Stat, CpuState, cpuVars, swapVars,
                            tsVars, progVars
  <2>2. CASE PswtchIdle
    <3>1. 0 \in Pri
      BY MaxPriAssumption DEF Pri
    <3> QED BY <1>1, <1>2, <2>2, <3>1 DEF PswtchIdle, TypeOK, CpuState, procVars,
                                          swapVars, tsVars, progVars
  <2>3. ASSUME NEW p \in Proc, PswtchPick(p)
        PROVE  TypeOK'
    BY <1>1, <1>2, <2>3 DEF PswtchPick, TypeOK, Stat, CpuState, swapVars, tsVars, progVars
  <2> QED BY <1>6, <2>1, <2>2, <2>3 DEF SwitchStep
<1>7. ASSUME SetrunSched, p_stat[Sched] = "SSLEEP"
      PROVE  /\ p_stat' \in [Proc -> Stat] /\ p_wchan' \in [Proc -> Chan \cup {NoChan}]
             /\ runrun' \in BOOLEAN
  BY <1>2, <1>7 DEF SetrunSched, TypeOK, Stat
<1>8. ASSUME LoopStep
      PROVE  TypeOK'
  <2>1. ASSUME NEW p \in Proc, WakeOne(p)
        PROVE  TypeOK'
    <3>1. isr' \in IsrState
      BY <1>2, <2>1 DEF WakeOne, WantsSched, TypeOK, IsrState
    <3>2. npwakecnt' \in BOOLEAN
      BY <1>2, <2>1 DEF WakeOne, TypeOK, IsrState
    <3> QED BY <1>1, <1>2, <2>1, <3>1, <3>2
            DEF WakeOne, TypeOK, Stat, swapVars, progVars
  <2>2. CASE WakeEnd
    <3>1. NoIsr \in IsrState
      BY DEF NoIsr, IsrState
    <3>2. CASE isr.runsched
      <4>1. p_stat[Sched] = "SSLEEP"
        BY <3>2 DEF IInv, SchedInv, SwapperArmed, SleepInv
      <4> QED BY <1>1, <1>2, <1>7, <2>2, <3>1, <3>2, <4>1 DEF WakeEnd, TypeOK, tsVars, progVars
    <3>3. CASE ~ isr.runsched
      BY <1>1, <1>2, <2>2, <3>1, <3>3 DEF WakeEnd, TypeOK, tsVars, progVars
    <3> QED BY <3>2, <3>3
  <2>3. CASE UpdateOne
    <3> DEFINE p == TsList[isr.i]
               cp == LWait[cpupri[p]]
               u == umdpri(cp, upri[p])
    <3>1. p \in Ts
      BY <2>3, ListType DEF UpdateOne, IInv, SchedInv, TypeOK, IsrState
    <3>2. cp \in Umd /\ u \in Umd /\ u \in Pri /\ Quantum[u] \in Int
      BY <1>2, <3>1, Tables DEF TypeOK
    <3>3. isr' \in IsrState
      <4>1. isr' = [isr EXCEPT !.i = @ + 1] /\ isr \in IsrState
        BY <1>2, <2>3 DEF UpdateOne, TypeOK
      <4> QED BY <4>1 DEF IsrState
    <3>4. Retyped
      <4>1. /\ p_pri' \in {p_pri, [p_pri EXCEPT ![p] = u]} /\ curpri' \in {curpri, u}
            /\ cpupri' \in {cpupri, [cpupri EXCEPT ![p] = cp]}
            /\ timeleft' \in {timeleft, [timeleft EXCEPT ![p] = Quantum[u]]}
            /\ \/ dispwait' \in {dispwait, [dispwait EXCEPT ![p] = 0]}
               \/ dispwait' = [dispwait EXCEPT ![p] = dispwait[p] + 1]
            /\ tskpri' = tskpri /\ tsbackq' \in {tsbackq, tsbackq \cup {p}}
        BY <2>3 DEF UpdateOne
      <4>2. dispwait[p] + 1 \in Nat
        BY <1>2, <3>1 DEF TypeOK
      <4> HIDE DEF p, cp, u
      <4> QED BY <1>2, <3>1, <3>2, <4>1, <4>2, RetypedFields
    <3>5. UNCHANGED << p_stat, p_wchan, sload, curproc, runrun, npwakecnt, swapVars, upri,
                       progVars, cpu >>
      BY <2>3 DEF UpdateOne
    <3> QED BY <1>1, <1>2, <3>3, <3>4, <3>5 DEF Retyped, TypeOK, swapVars, progVars
  <2>4. CASE UpdateEnd
    <3>1. NoIsr \in IsrState
      BY DEF NoIsr, IsrState
    <3> QED BY <1>1, <1>2, <2>4, <3>1
            DEF UpdateEnd, TypeOK, procVars, swapVars, tsVars, progVars
  <2> QED BY <1>8, <2>1, <2>2, <2>3, <2>4 DEF LoopStep
<1>9. ASSUME Interrupt
      PROVE  TypeOK'
  <2>1. ASSUME NEW ch \in IoChan \cup {SwapIo}, IoDone(ch)
        PROVE  TypeOK'
    <3>1. ch \in Chan /\ Wakeprocs(ch, FALSE) \in IsrState
      BY DEF Wakeprocs, NoIsr, IsrState, IoEvent
    <3> QED BY <1>1, <1>2, <2>1, <3>1 DEF IoDone, TypeOK, procVars, cpuVars, swapVars, tsVars
  <2>2. CASE Tick
    <3> DEFINE p == curproc
               cp == TqExp[cpupri[p]]
               u == umdpri(cp, upri[p])
    <3>1. p \in Ts
      BY <1>2, <2>2 DEF Tick, TypeOK, Ts
    <3>2. cp \in Umd /\ u \in Umd /\ u \in Pri /\ Quantum[u] \in Int
      BY <1>2, <3>1, Tables DEF TypeOK
    <3> DEFINE t == IF timeleft[p] > 0 THEN timeleft[p] - 1 ELSE -1
    <3>3. Retyped
      <4>1. /\ p_pri' \in {p_pri, [p_pri EXCEPT ![p] = u]} /\ curpri' \in {curpri, u}
            /\ cpupri' \in {cpupri, [cpupri EXCEPT ![p] = cp]}
            /\ \/ timeleft' = [timeleft EXCEPT ![p] = Quantum[u]]
               \/ timeleft' = [timeleft EXCEPT ![p] = 0]
               \/ timeleft' = [timeleft EXCEPT ![p] = t]
            /\ dispwait' \in {dispwait, [dispwait EXCEPT ![p] = 0]}
            /\ tskpri' = tskpri /\ tsbackq' \in {tsbackq, tsbackq \cup {p}}
        BY <2>2 DEF Tick
      <4>2. t \in Int
        BY <1>2, <3>1 DEF TypeOK
      <4> HIDE DEF p, cp, u, t
      <4> QED BY <1>2, <3>1, <3>2, <4>1, <4>2, RetypedFields
    <3>4. runrun' \in BOOLEAN
      BY <1>2, <2>2 DEF Tick, TypeOK
    <3>5. UNCHANGED << p_stat, p_wchan, sload, curproc, npwakecnt, swapVars, upri, progVars,
                       cpu, isr >>
      BY <2>2 DEF Tick
    <3> QED BY <1>1, <1>2, <3>3, <3>4, <3>5 DEF Retyped, TypeOK, swapVars, progVars
  <2>3. CASE UpdateBegin
    <3>1. TsUpdate \in IsrState
      BY DEF TsUpdate, NoIsr, IsrState
    <3> QED BY <1>1, <1>2, <2>3, <3>1
            DEF UpdateBegin, TypeOK, procVars, cpuVars, swapVars, tsVars, progVars
  <2>4. ASSUME NEW low \in MemLow, EverySecond(low)
        PROVE  TypeOK'
    <3>1. p_stat[Sched] = "SSLEEP"
      BY <2>4 DEF EverySecond, SchedDue, IInv, SchedInv, SwapperArmed, SleepInv
    <3> QED BY <1>1, <1>2, <1>7, <2>4, <3>1 DEF EverySecond, TypeOK, tsVars, progVars
  <2> QED BY <1>9, <2>1, <2>2, <2>3, <2>4 DEF Interrupt
<1>10. CASE UNCHANGED vars
  BY <1>2, <1>10 DEF vars, procVars, queueVars, cpuVars, swapVars, tsVars, progVars, TypeOK
<1> QED BY <1>3, <1>5, <1>6, <1>8, <1>9, <1>10 DEF Next

(***************************************************************************)
(* The initial states.                                                     *)
(***************************************************************************)

\* The dispatcher queues of a system of which one process executes, the
\* others being linked at the priority they have.
LEMMA InitQueue ==
    ASSUME Init
    PROVE  QueueInv
<1> USE Consts
<1>1. PICK i \in DOMAIN TsList :
          /\ p_stat = [p \in Proc |-> IF p = TsList[i] THEN "SONPROC" ELSE "SRUN"]
          /\ p_pri = [p \in Proc |-> IF p = Sched THEN SysPri["PSWP"] ELSE MaxUmd]
          /\ sload = Proc /\ cpu = "run"
          /\ dq = setbackdq(dispinit(MaxUmd, RemoveAt(TsList, i)),
                            Sched, SysPri["PSWP"], TRUE)
  BY DEF Init
<1> DEFINE s == RemoveAt(TsList, i)
           d == dispinit(MaxUmd, s)
<1>2. /\ MaxUmd \in Pri /\ SysPri["PSWP"] \in Pri
      /\ TsList \in Seq(Proc) /\ Injective(TsList)
      /\ \A x : Holds(TsList, x) <=> x \in Ts
  BY DispatchAssumption, MaxPriAssumption
     DEF DispatchAssumption, Pri, Disp, IsInjective, Injective, ToSet, Holds
<1>3. /\ s \in Seq(Proc) /\ Injective(s)
      /\ \A x : Holds(s, x) <=> x \in Ts /\ x # TsList[i]
  BY <1>2, RemoveHolds
<1> HIDE DEF s
<1>4. /\ Sound(d, Proc)
      /\ \A x : \A m \in Pri : OnQueue(d, x, m) <=> m = MaxUmd /\ Holds(s, x)
  BY <1>2, <1>3, InitSound
<1> HIDE DEF d
<1>5. p_pri \in [Proc -> Pri]
  BY <1>1, <1>2
<1>6. QueueOK(d, Proc, p_pri, Ts \ {TsList[i]})
  BY <1>1, <1>3, <1>4 DEF QueueOK
<1>7. QueueOK(setbackdq(d, Sched, p_pri[Sched], TRUE), Proc, p_pri,
              (Ts \ {TsList[i]}) \cup {Sched})
  BY <1>5, <1>6, Enqueue
<1>8. dq = setbackdq(d, Sched, p_pri[Sched], TRUE)
  BY <1>1 DEF d, s
<1>9. Queued = (Ts \ {TsList[i]}) \cup {Sched} /\ Schedulable = Proc
  <2>1. TsList[i] \in Ts
    BY <1>2 DEF Holds
  <2> QED BY <1>1, <2>1 DEF Queued, Schedulable, Ts
<1> QED BY <1>7, <1>8, <1>9 DEF QueueInv

\* The initial states are within the invariant.
LEMMA InitIInv ==
    ASSUME Init
    PROVE  IInv
<1> USE Consts
<1>1. PICK i \in DOMAIN TsList : LET first == TsList[i] IN
          /\ p_stat = [p \in Proc |-> IF p = first THEN "SONPROC" ELSE "SRUN"]
          /\ curproc = first
  BY DEF Init
<1>2. TsList[i] \in Ts
  BY DispatchAssumption DEF DispatchAssumption
<1>3. QueueInv
  BY InitQueue
<1>4. CpuInv
  BY <1>1, <1>2 DEF Init, CpuInv, Executing, Schedulable
<1>5. SleepInv
  BY DEF Init, SleepInv, SleepqOK, Injective, Holds
<1>6. SchedInv
  BY <1>1, <1>2 DEF Init, SchedInv, SwapperArmed, NoIsr
<1>7. EventInv /\ NomineeInv
  BY DEF Init, EventInv, NomineeInv, IoEvent
<1>8. TypeOK
  <2>1. dq \in Dispq
    BY <1>3 DEF QueueInv, QueueOK, Sound
  <2>2. sleepq \in [0 .. NSleepq - 1 -> Seq(Proc)]
    BY <1>5 DEF SleepInv, SleepqOK
  <2>3. MaxUmd \in Umd /\ MaxUmd \in Pri /\ 0 \in MinUpri .. 0
    BY DispatchAssumption, MaxPriAssumption DEF DispatchAssumption, Umd, Pri
  <2>4. SysPri["PSWP"] \in Pri /\ Quantum[MaxUmd] \in Int
    BY <2>3, Tables
  <2>5. p_stat \in [Proc -> Stat] /\ curproc \in Proc
    BY <1>1, <1>2 DEF Stat
  <2>6. isr \in IsrState
    BY DEF Init, NoIsr, IsrState
  <2>7. p_pri \in [Proc -> Pri] /\ p_wchan \in [Proc -> Chan \cup {NoChan}]
    BY <2>3, <2>4 DEF Init
  <2>8. /\ cpupri \in [Ts -> Umd] /\ upri \in [Ts -> MinUpri .. 0]
        /\ timeleft \in [Ts -> Int] /\ dispwait \in [Ts -> Nat]
    BY <2>3, <2>4 DEF Init
  <2>9. /\ pc \in [Proc -> Place] /\ want \in [Proc -> Chan \cup {NoChan}]
        /\ done \subseteq Chan
    BY DEF Init, Place, IoEvent
  <2>10. /\ sload \subseteq Proc /\ curpri \in Pri /\ tskpri \subseteq Ts /\ tsbackq \subseteq Ts
         /\ nominee \in Ts \cup {NoProc} /\ justloaded \in Ts \cup {NoProc}
         /\ runrun \in BOOLEAN /\ npwakecnt \in BOOLEAN
         /\ runin \in BOOLEAN /\ runout \in BOOLEAN /\ cpu \in CpuState
    BY <2>3, DispatchAssumption DEF Init, CpuState, DispatchAssumption
  <2> QED BY <2>1, <2>2, <2>5, <2>6, <2>7, <2>8, <2>9, <2>10 DEF TypeOK
<1> QED BY <1>3, <1>4, <1>5, <1>6, <1>7, <1>8 DEF IInv

(***************************************************************************)
(* The theorems.                                                           *)
(***************************************************************************)

\* The invariant is one.
THEOREM Invariance == Spec => []IInv
<1>1. Init => IInv
  BY InitIInv
<1>2. IInv /\ [Next]_vars => IInv'
  <2> SUFFICES ASSUME IInv, [Next]_vars PROVE IInv'
    OBVIOUS
  <2>1. QueueInv' /\ CpuInv' /\ SleepInv'
    BY QueueStep, CpuStep, SleepStep
  <2>2. SchedInv' /\ EventInv' /\ NomineeInv'
    BY SchedInvStep, EventStep, NomineeStep
  <2>3. TypeOK'
    BY <2>1, TypeStep
  <2> QED BY <2>1, <2>2, <2>3 DEF IInv
<1> QED BY <1>1, <1>2, PTL DEF Spec

\* Every variable keeps its type: counts, bitmap and queues included.
THEOREM TypeCorrect == Spec => []TypeOK
<1>1. IInv => TypeOK
  BY DEF IInv
<1> QED BY <1>1, Invariance, PTL

\* disp.c links a process on one queue at most, that of its priority, exactly
\* while it is runnable or preempt() is switching away from it.
THEOREM DispatchQueues == Spec => []DispqSound
<1>1. IInv => DispqSound
  BY DEF IInv, TypeOK, QueueInv, QueueOK, Sound, Queued, DispqSound
<1> QED BY <1>1, Invariance, PTL

\* dq_sruncnt, srunprocs, dqactmap and maxrunpri count the schedulable processes
\* linked, whatever the clock, the memory scheduler or priocntl() does.
THEOREM Counts == Spec => []CountsAgree
<1>1. IInv => CountsAgree
  BY DEF IInv, QueueInv, QueueOK, Sound, CountsAgree
<1> QED BY <1>1, Invariance, PTL

\* The processor and the process on it agree.
THEOREM Curproc == Spec => []CurprocSound
<1>1. IInv => CurprocSound
  BY DEF IInv, CpuInv, Executing, CurprocSound
<1> QED BY <1>1, Invariance, PTL

\* sleep(), wakeprocs() and setrun() keep the sleep queues.
THEOREM SleepQueues == Spec => []SleepqSound
<1>1. IInv => SleepqSound
  <2> SUFFICES ASSUME IInv PROVE SleepqSound
    OBVIOUS
  <2>1. /\ sleepq \in [0 .. NSleepq - 1 -> Seq(Proc)]
        /\ p_wchan \in [Proc -> Chan \cup {NoChan}]
        /\ sqhash \in [Chan -> 0 .. NSleepq - 1]
    BY DispatchAssumption DEF DispatchAssumption, IInv, TypeOK
  <2>2. ASSUME NEW b \in DOMAIN sleepq, NEW c \in DOMAIN sleepq,
               NEW i \in DOMAIN sleepq[b], NEW j \in DOMAIN sleepq[c],
               sleepq[b][i] = sleepq[c][j]
        PROVE  b = c /\ i = j
    <3>1. sleepq[b] \in Seq(Proc) /\ sleepq[b][i] \in Proc
      BY <2>1
    <3>2. Holds(sleepq[b], sleepq[b][i]) /\ Holds(sleepq[c], sleepq[b][i])
      BY <2>2 DEF Holds
    <3>3. b = c
      BY <2>1, <3>1, <3>2 DEF IInv, SleepInv, SleepqOK
    <3> QED BY <2>1, <2>2, <3>3 DEF IInv, SleepInv, SleepqOK, Injective
  <2>3. ASSUME NEW p \in Proc
        PROVE  /\ p_stat[p] = "SSLEEP" <=> p_wchan[p] # NoChan
               /\ \A b \in DOMAIN sleepq :
                      Holds(sleepq[b], p) <=> p_wchan[p] # NoChan /\ b = sqhash[p_wchan[p]]
    BY <2>1, Consts DEF IInv, SleepInv, SleepqOK
  <2> QED BY <2>2, <2>3 DEF SleepqSound, Holds
<1> QED BY <1>1, Invariance, PTL

\* No interleaving of sleepers, wakeups, swaps and ticks loses a wakeup.
THEOREM WakeupsKept == Spec => []NoLostWakeup
<1>1. IInv => NoLostWakeup
  BY DEF IInv, EventInv, NoIsr, NoLostWakeup
<1> QED BY <1>1, Invariance, PTL

\* runin and runout never drift from what the memory scheduler sleeps on.
THEOREM SwapperFlags == Spec => []SwapperArmed
<1>1. IInv => SwapperArmed
  BY DEF IInv, SchedInv
<1> QED BY <1>1, Invariance, PTL

\* The memory scheduler is never left waiting for a process that is there.
THEOREM Nominees == Spec => []NomineeNotForgotten
<1>1. IInv => NomineeNotForgotten
  BY DEF IInv, SchedInv, SwapperArmed, NomineeInv, NoIsr, NomineeNotForgotten
<1> QED BY <1>1, Invariance, PTL

\* What pswtch() picks has the highest priority of the schedulable processes.
LEMMA PickIsHighest ==
    ASSUME IInv, NEW p \in Proc, PswtchPick(p), NEW q \in Schedulable, p_stat[q] = "SRUN"
    PROVE  p_pri[q] <= p_pri[p]
<1>1. QueueOK(dq, Schedulable, p_pri, Queued)
  BY DEF IInv, QueueInv
<1>2. q \in Proc /\ Schedulable \in SUBSET Proc /\ p_pri[q] \in Pri /\ q \in Queued
  BY QueuedFacts, Consts
<1>3. OnQueue(dq, q, p_pri[q])
  BY <1>1, <1>2 DEF QueueOK
<1>4. dq.max \in Pri /\ OnQueue(dq, p, dq.max) /\ p_pri[q] <= dq.max
  BY <1>1, <1>2, <1>3, Consts, FirstIsHighest DEF QueueOK, PswtchPick
<1>5. p_pri[p] = dq.max
  BY <1>1, <1>4 DEF QueueOK
<1> QED BY <1>4, <1>5

\* Only pswtch() puts a process on the processor, and one of the highest
\* priority among the schedulable ones.
LEMMA OnlyPswtchRuns ==
    ASSUME IInv, Next, NEW p \in Proc, p_stat[p] # "SONPROC", p_stat'[p] = "SONPROC"
    PROVE  PswtchPick(p)
<1>1. p_stat \in [Proc -> Stat] /\ curproc \in Proc
  BY DEF IInv, TypeOK
<1>2. ASSUME NEW q \in Ts, ProcessStep(q)
      PROVE  FALSE
  <2>1. \/ UNCHANGED p_stat \/ p_stat' = [p_stat EXCEPT ![q] = "SZOMB"]
        \/ p_stat' = [p_stat EXCEPT ![q] = "SSLEEP"]
        \/ p_stat' = [p_stat EXCEPT ![q] = "SSLEEP", ![Sched] = "SRUN"]
    BY <1>2 DEF ProcessStep, Syscall, Request, WaitLoop, Post, ts_parmsset, TrapExit,
                ts_trapret, s_trap, Exit, TsSleep, ts_preempt, procVars
  <2> QED BY <1>1, <2>1, Consts
<1>3. ASSUME SchedStep
      PROVE  FALSE
  <2>1. UNCHANGED p_stat \/ p_stat' = [p_stat EXCEPT ![Sched] = "SSLEEP"]
    BY <1>3 DEF SchedStep, SchedWaitOut, SchedUnload, SchedSwapin, SchedLoaded, SchedIo,
                SchedUnloaded, SchedWaitIn, SchedSwapout, SchedSleep, procVars
  <2> QED BY <1>1, <2>1, Consts
<1>4. ASSUME LoopStep \/ Interrupt
      PROVE  FALSE
  <2>1. UNCHANGED p_stat \/ \E q \in Proc : p_stat' = [p_stat EXCEPT ![q] = "SRUN"]
    BY <1>4, Consts
       DEF LoopStep, WakeOne, WakeEnd, UpdateOne, UpdateEnd, Interrupt, IoDone, Tick,
           UpdateBegin, EverySecond, SetrunSched, procVars
  <2> QED BY <1>1, <2>1
<1>5. PswtchEnter => FALSE
  BY <1>1 DEF PswtchEnter
<1>6. PswtchIdle => FALSE
  BY DEF PswtchIdle, procVars
<1>7. ASSUME NEW q \in Proc, PswtchPick(q)
      PROVE  PswtchPick(p)
  BY <1>1, <1>7 DEF PswtchPick
<1> QED BY <1>2, <1>3, <1>4, <1>5, <1>6, <1>7 DEF Next, SwitchStep

\* The processor is never given away over the head of a better process that is
\* runnable and in memory: swapping, re-queueing and boosts included.
THEOREM PriorityOrder == Spec => HighestFirst
<1>1. IInv /\ [Next]_vars =>
          [\A p \in Proc : p_stat[p] # "SONPROC" /\ p_stat'[p] = "SONPROC" =>
               \A q \in Schedulable : p_stat[q] = "SRUN" => p_pri[q] <= p_pri[p]]_vars
  BY PickIsHighest, OnlyPswtchRuns
<1> QED BY <1>1, Invariance, PTL DEF Spec, HighestFirst

\* What the tables of the two classes have in common: the memory scheduler never
\* waits at a lower priority than a time-sharing process can have.
SysPriAbove ==
    \A d \in {"PSWP", "PRIBIO"} :
        MaxUmd <= SysPri[d] /\ KmdPri["PRIBIO"] <= SysPri[d] /\ KmdPri["PSLEP"] <= SysPri[d]

\* With such tables proc_sched, when it runs, is not below anybody it may load.
RankInv ==
    /\ \A p \in Ts, d \in {"PSWP", "PRIBIO"} : p_pri[p] <= SysPri[d]
    /\ p_pri[Sched] \in {SysPri["PSWP"], SysPri["PRIBIO"]}
    /\ Sched \in sload

\* No schedulable process that is runnable has a priority above k.
NoneAbove(k) == \A q \in Schedulable : p_stat[q] = "SRUN" => p_pri[q] <= k

\* PreemptionPending while curproc is at splhi, too, and while wakeprocs() goes
\* on; ts_update() sets runrun at its end.
PendInv ==
    cpu \in {"run", "runhi"} /\ isr.op # "ts_update" /\ ~ runrun /\ ~ npwakecnt =>
        NoneAbove(curpri)

\* maxrunpri is the priority of the best schedulable process that is queued.
LEMMA MaxIsBest ==
    ASSUME IInv
    PROVE  /\ NoneAbove(dq.max)
           /\ cpu = "run" /\ NoneAbove(curpri) => ~ (dq.max > curpri)
<1>1. /\ dq \in Dispq /\ Counted(dq, Schedulable) /\ Schedulable \in SUBSET Proc
      /\ p_pri \in [Proc -> Pri] /\ curpri \in Pri
      /\ \A q \in Proc, k \in Pri : OnQueue(dq, q, k) <=> k = p_pri[q] /\ q \in Queued
  BY QueuedFacts DEF IInv, TypeOK, QueueInv, QueueOK, Sound
<1>2. \A k \in Pri : k \in dq.act <=> \E q \in Schedulable : OnQueue(dq, q, k)
  <2> SUFFICES ASSUME NEW k \in Pri
               PROVE  k \in dq.act <=> \E q \in Schedulable : OnQueue(dq, q, k)
    OBVIOUS
  <2> DEFINE here == {q \in Schedulable : OnQueue(dq, q, k)}
  <2>1. IsFiniteSet(here)
    BY <1>1, Consts, FS_Subset
  <2>2. k \in dq.act <=> Cardinality(here) > 0
    BY <1>1 DEF Counted
  <2>3. Cardinality(here) > 0 <=> here # {}
    BY <2>1, FS_EmptySet, FS_CardinalityType
  <2> QED BY <2>2, <2>3
<1>3. /\ dq.act \in SUBSET Pri /\ (dq.act = {} => dq.max = -1)
      /\ dq.act # {} => dq.max \in dq.act /\ \A k \in dq.act : k <= dq.max
  <2>1. dq.act \in SUBSET Pri
    BY <1>1 DEF Dispq
  <2>2. dq.max = IF dq.act = {} THEN -1 ELSE bt_gethighbit(dq.act)
    BY <1>1 DEF Counted
  <2>3. dq.act # {} => /\ bt_gethighbit(dq.act) \in dq.act
                       /\ \A k \in dq.act : k <= bt_gethighbit(dq.act)
    BY <2>1, HighBit
  <2> QED BY <2>1, <2>2, <2>3
<1>4. NoneAbove(dq.max)
  <2> SUFFICES ASSUME NEW q \in Schedulable, p_stat[q] = "SRUN" PROVE p_pri[q] <= dq.max
    BY DEF NoneAbove
  <2>1. p_pri[q] \in dq.act
    BY <1>1, <1>2, QueuedFacts
  <2> QED BY <1>3, <2>1
<1>5. ASSUME cpu = "run", NoneAbove(curpri) PROVE ~ (dq.max > curpri)
  <2>1. CASE dq.act = {}
    BY <1>1, <1>3, <2>1, MaxPriAssumption DEF Pri
  <2>2. CASE dq.act # {}
    <3>1. PICK q \in Schedulable : OnQueue(dq, q, dq.max)
      BY <1>2, <1>3, <2>2
    <3>2. p_pri[q] = dq.max /\ q \in Queued /\ dq.max \in Pri
      BY <1>1, <1>3, <2>2, <3>1
    <3>3. p_pri[q] <= curpri
      BY <1>5, <3>2 DEF Queued, NoneAbove
    <3> QED BY <1>1, <3>2, <3>3, MaxPriAssumption DEF Pri
  <2> QED BY <2>1, <2>2
<1> QED BY <1>4, <1>5

\* A time-sharing process at a user or a kernel priority is below proc_sched.
LEMMA Ranked ==
    ASSUME IInv, RankInv, SysPriAbove, NEW p \in Ts, NEW u,
           u \in Umd \/ u \in {KmdPri["PRIBIO"], KmdPri["PSLEP"]},
           p_pri' = [p_pri EXCEPT ![p] = u], Sched \in sload'
    PROVE  RankInv'
<1>1. p_pri \in [Proc -> Pri]
  BY QueuedFacts
<1>2. \A d \in {"PSWP", "PRIBIO"} : SysPri[d] \in Int
  BY DispatchAssumption, MaxPriAssumption DEF DispatchAssumption, Disp, Pri
<1>3. \A d \in {"PSWP", "PRIBIO"} : u <= SysPri[d]
  <2> SUFFICES ASSUME NEW d \in {"PSWP", "PRIBIO"} PROVE u <= SysPri[d]
    OBVIOUS
  <2>1. MaxUmd <= SysPri[d] /\ KmdPri["PRIBIO"] <= SysPri[d] /\ KmdPri["PSLEP"] <= SysPri[d]
    BY DEF SysPriAbove
  <2>2. u \in Umd => u \in Int /\ u <= MaxUmd /\ MaxUmd \in Int
    BY DispatchAssumption DEF Umd, DispatchAssumption
  <2>3. SysPri[d] \in Int
    BY <1>2
  <2> QED BY <2>1, <2>2, <2>3
<1>4. p_pri'[Sched] = p_pri[Sched] /\ p_pri'[p] = u /\ \A q \in Ts : q # p => p_pri'[q] = p_pri[q]
  BY <1>1, Consts
<1> QED BY <1>3, <1>4 DEF RankInv

\* So it is when proc_sched itself goes to sleep at a system priority.
LEMMA RankedSched ==
    ASSUME IInv, RankInv, NEW d \in {"PSWP", "PRIBIO"},
           p_pri' = [p_pri EXCEPT ![Sched] = SysPri[d]], Sched \in sload'
    PROVE  RankInv'
<1>1. p_pri \in [Proc -> Pri]
  BY QueuedFacts
<1> QED BY <1>1, Consts DEF RankInv

\* No step brings a time-sharing process above proc_sched or unloads proc_sched.
LEMMA RankStep ==
    ASSUME IInv, RankInv, SysPriAbove, [Next]_vars
    PROVE  RankInv'
<1>1. ASSUME UNCHANGED p_pri, Sched \in sload'
      PROVE  RankInv'
  BY <1>1 DEF RankInv
<1>2. Sched \in sload /\ cpupri \in [Ts -> Umd] /\ upri \in [Ts -> MinUpri .. 0]
      /\ p_pri \in [Proc -> Pri] /\ curproc \in Proc
  BY DEF RankInv, IInv, TypeOK
<1>3. ASSUME NEW p \in Ts, NEW cp \in Umd, NEW up \in MinUpri .. 0, UNCHANGED sload,
             p_pri' = [p_pri EXCEPT ![p] = umdpri(cp, up)] \/ UNCHANGED p_pri
      PROVE  RankInv'
  BY <1>1, <1>2, <1>3, UmdpriType, Ranked
<1>4. ASSUME NEW p \in Ts, ProcessStep(p)
      PROVE  RankInv'
  <2>1. CASE Syscall(p) \/ TrapExit(p) \/ s_trap(p) \/ Exit(p)
    BY <1>1, <1>2, <2>1 DEF Syscall, TrapExit, s_trap, Exit, ts_preempt, procVars
  <2>2. ASSUME NEW ch \in IoChan, NEW start \in BOOLEAN, NEW disp \in SleepDisp,
               Request(p, ch, start, disp)
        PROVE  RankInv'
    BY <1>1, <1>2, <2>2 DEF Request, procVars
  <2>3. ASSUME NEW ch \in IoChan, NEW np \in PostFlags, Post(p, ch, np)
        PROVE  RankInv'
    BY <1>1, <1>2, <2>3 DEF Post, procVars
  <2>4. CASE WaitLoop(p)
    <3>1. CASE UNCHANGED procVars
      BY <1>1, <1>2, <3>1 DEF procVars
    <3>2. ASSUME NEW disp \in {"PRIBIO", "PSLEP"}, TsSleep(p, want[p], disp)
          PROVE  RankInv'
      <4>1. p_pri' = [p_pri EXCEPT ![p] = KmdPri[disp]] /\ Sched \in sload'
        BY <1>2, <3>2 DEF TsSleep
      <4>2. KmdPri[disp] \in {KmdPri["PRIBIO"], KmdPri["PSLEP"]}
        OBVIOUS
      <4> QED BY <4>1, <4>2, Ranked
    <3> QED BY <2>4, <3>1, <3>2 DEF WaitLoop
  <2>5. ASSUME NEW q \in Ts, NEW new \in MinUpri .. 0, ts_parmsset(p, q, new)
        PROVE  RankInv'
    <3>1. /\ UNCHANGED sload
          /\ p_pri' = [p_pri EXCEPT ![q] = umdpri(cpupri[q], new)] \/ UNCHANGED p_pri
      BY <2>5 DEF ts_parmsset
    <3> QED BY <1>2, <1>3, <3>1
  <2>6. CASE ts_trapret(p)
    <3>1. SlpRet[cpupri[p]] \in Umd
      BY <1>2, DispatchAssumption DEF DispatchAssumption
    <3>2. /\ UNCHANGED sload
          /\ \/ p_pri' = [p_pri EXCEPT ![p] = umdpri(SlpRet[cpupri[p]], upri[p])]
             \/ UNCHANGED p_pri
      BY <2>6 DEF ts_trapret
    <3> QED BY <1>2, <1>3, <3>1, <3>2
  <2> QED BY <1>4, <2>1, <2>2, <2>3, <2>4, <2>5, <2>6 DEF ProcessStep
<1>5. ASSUME SchedStep
      PROVE  RankInv'
  <2>1. Sched \in sload'
    BY <1>2, <1>5, Consts
       DEF SchedStep, SchedWaitOut, SchedUnload, SchedSwapin, SchedLoaded, SchedIo,
           SchedUnloaded, SchedWaitIn, SchedSwapout, procVars
  <2>2. \/ UNCHANGED p_pri
        \/ \E ch, d : d \in {"PSWP", "PRIBIO"} /\ SchedSleep(ch, d)
    BY <1>5 DEF SchedStep, SchedWaitOut, SchedUnload, SchedSwapin, SchedLoaded, SchedIo,
                SchedUnloaded, SchedWaitIn, SchedSwapout, procVars
  <2> QED BY <1>1, <2>1, <2>2, RankedSched DEF SchedSleep
<1>6. ASSUME LoopStep
      PROVE  RankInv'
  <2>1. CASE UpdateOne
    <3> DEFINE p == TsList[isr.i]
    <3>1. p \in Ts
      BY <2>1, ListType DEF IInv, TypeOK, IsrState, SchedInv, UpdateOne
    <3>2. LWait[cpupri[p]] \in Umd
      BY <1>2, <3>1, DispatchAssumption DEF DispatchAssumption
    <3>3. /\ UNCHANGED sload
          /\ \/ p_pri' = [p_pri EXCEPT ![p] = umdpri(LWait[cpupri[p]], upri[p])]
             \/ UNCHANGED p_pri
      BY <2>1 DEF UpdateOne
    <3> HIDE DEF p
    <3> QED BY <1>2, <1>3, <3>1, <3>2, <3>3
  <2>2. CASE ~ UpdateOne
    BY <1>1, <1>2, <1>6, <2>2 DEF LoopStep, WakeOne, WakeEnd, UpdateEnd, procVars
  <2> QED BY <2>1, <2>2
<1>7. ASSUME Interrupt
      PROVE  RankInv'
  <2>1. CASE Tick
    <3>1. curproc \in Ts
      BY <1>2, <2>1 DEF Tick, Ts
    <3>2. TqExp[cpupri[curproc]] \in Umd
      BY <1>2, <3>1, DispatchAssumption DEF DispatchAssumption
    <3>3. /\ UNCHANGED sload
          /\ \/ p_pri' = [p_pri EXCEPT ![curproc] =
                            umdpri(TqExp[cpupri[curproc]], upri[curproc])]
             \/ UNCHANGED p_pri
      BY <2>1 DEF Tick
    <3> QED BY <1>2, <1>3, <3>1, <3>2, <3>3
  <2>2. CASE ~ Tick
    BY <1>1, <1>2, <1>7, <2>2 DEF Interrupt, IoDone, UpdateBegin, EverySecond, procVars
  <2> QED BY <2>1, <2>2
<1>8. ASSUME SwitchStep
      PROVE  RankInv'
  BY <1>1, <1>2, <1>8 DEF SwitchStep, PswtchEnter, PswtchIdle, PswtchPick, procVars
<1>9. CASE UNCHANGED vars
  BY <1>1, <1>2, <1>9 DEF vars, procVars
<1> QED BY <1>4, <1>5, <1>6, <1>7, <1>8, <1>9 DEF Next

\* A step that makes nobody runnable, loads nobody and withdraws no request.
LEMMA PendKept ==
    ASSUME PendInv, cpu \in {"run", "runhi"}, isr.op # "ts_update",
           runrun => runrun', npwakecnt => npwakecnt', curpri' = curpri,
           \A q \in Schedulable' : p_stat'[q] = "SRUN" =>
               q \in Schedulable /\ p_stat[q] = "SRUN" /\ p_pri'[q] = p_pri[q]
    PROVE  PendInv'
  BY DEF PendInv, NoneAbove

\* p becomes runnable, and whoever does it compares it with curproc.
LEMMA PendJoined ==
    ASSUME IInv, PendInv, cpu' = cpu, isr.op # "ts_update",
           runrun => runrun', npwakecnt => npwakecnt', NEW p \in Proc,
           p_stat' = [p_stat EXCEPT ![p] = "SRUN"],
           p \in Schedulable => runrun' \/ npwakecnt' \/ ~ (p_pri[p] > curpri),
           UNCHANGED << sload, p_pri, curpri >>
    PROVE  PendInv'
<1>1. /\ p_stat \in [Proc -> Stat] /\ p_pri[p] \in Int /\ curpri \in Int
      /\ Schedulable \in SUBSET Proc /\ Schedulable' = Schedulable
  BY QueuedFacts, MaxPriAssumption DEF IInv, TypeOK, Pri, Schedulable
<1> SUFFICES ASSUME cpu' \in {"run", "runhi"}, ~ runrun', ~ npwakecnt',
                    NEW q \in Schedulable, p_stat'[q] = "SRUN"
             PROVE  p_pri[q] <= curpri
  BY <1>1 DEF PendInv, NoneAbove
<1>2. NoneAbove(curpri)
  BY DEF PendInv
<1>3. CASE q = p
  BY <1>1, <1>3
<1>4. CASE q # p
  BY <1>1, <1>2, <1>4 DEF NoneAbove
<1> QED BY <1>3, <1>4

\* setrun(proc_sched) does.
LEMMA PendSetrun ==
    ASSUME IInv, PendInv, SetrunSched, cpu' = cpu, isr.op # "ts_update",
           UNCHANGED << sload, p_pri, curpri, npwakecnt >>
    PROVE  PendInv'
<1>1. CASE p_stat[Sched] = "SRUN"
  BY <1>1 DEF SetrunSched, PendInv, NoneAbove, Schedulable
<1>2. CASE p_stat[Sched] # "SRUN"
  BY <1>2, PendJoined, Consts DEF SetrunSched
<1> QED BY <1>1, <1>2

\* Each step leaves nobody better than curproc without a request for the processor.
LEMMA PendStep ==
    ASSUME IInv, RankInv, PendInv, [Next]_vars
    PROVE  PendInv'
<1> USE Consts
<1>1. /\ p_stat \in [Proc -> Stat] /\ p_pri \in [Proc -> Pri] /\ curproc \in Proc
      /\ Schedulable \in SUBSET Proc /\ Sched \in sload
      /\ cpu \in {"run", "runhi"} => curpri = p_pri[curproc] /\ p_stat[curproc] = "SONPROC"
      /\ NoIsr.op = "none"
      /\ dq.max \in Int /\ curpri \in Int /\ \A q \in Proc : p_pri[q] \in Int
  <2>1. p_stat \in [Proc -> Stat] /\ p_pri \in [Proc -> Pri] /\ curproc \in Proc
        /\ Schedulable \in SUBSET Proc
    BY QueuedFacts
  <2>2. cpu \in {"run", "runhi"} => curpri = p_pri[curproc] /\ p_stat[curproc] = "SONPROC"
    BY <2>1 DEF IInv, CpuInv, Executing
  <2>3. dq.max \in Pri \cup {-1} /\ curpri \in Pri
    BY DEF IInv, TypeOK, Dispq
  <2>4. \A k \in Pri \cup {-1} : k \in Int
    BY MaxPriAssumption DEF Pri
  <2>5. Sched \in sload /\ NoIsr.op = "none"
    BY DEF RankInv, NoIsr
  <2> QED BY <2>1, <2>2, <2>3, <2>4, <2>5
<1>2. ASSUME cpu' \notin {"run", "runhi"} \/ isr'.op = "ts_update" \/ runrun'
      PROVE  PendInv'
  BY <1>2 DEF PendInv
<1>3. ASSUME UNCHANGED << p_stat, p_pri, sload, curpri, runrun, npwakecnt, cpu >>,
             isr.op # "ts_update" \/ UNCHANGED isr
      PROVE  PendInv'
  BY <1>3 DEF PendInv, NoneAbove, Schedulable
<1>4. ASSUME NEW p \in Ts, ProcessStep(p)
      PROVE  PendInv'
  <2>1. p = curproc /\ cpu = "run" /\ isr.op = "none" /\ p \in Proc
    BY <1>1, <1>4 DEF ProcessStep, Syscall, Request, Post, WaitLoop, ts_parmsset, TrapExit,
                      ts_trapret, s_trap, Exit, Running
  <2>2. CASE Syscall(p)
    BY <1>3, <2>1, <2>2 DEF Syscall, procVars, cpuVars
  <2>3. ASSUME NEW ch \in IoChan, NEW start \in BOOLEAN, NEW disp \in SleepDisp,
               Request(p, ch, start, disp)
        PROVE  PendInv'
    BY <1>3, <2>1, <2>3 DEF Request, procVars, cpuVars
  <2>4. ASSUME NEW ch \in IoChan, NEW np \in PostFlags, Post(p, ch, np)
        PROVE  PendInv'
    BY <1>3, <2>1, <2>4 DEF Post, procVars, cpuVars
  <2>5. CASE WaitLoop(p)
    <3>1. CASE want[p] \in done
      BY <1>3, <2>1, <2>5, <3>1 DEF WaitLoop, procVars, cpuVars
    <3>2. CASE want[p] \notin done
      BY <1>2, <2>5, <3>2 DEF WaitLoop, TsSleep
    <3> QED BY <3>1, <3>2
  <2>6. ASSUME NEW q \in Ts, NEW new \in MinUpri .. 0, ts_parmsset(p, q, new)
        PROVE  PendInv'
    <3> DEFINE u == umdpri(cpupri[q], new)
    <3>1. u \in Int /\ q \in Proc
      BY UmdpriType DEF IInv, TypeOK, Umd
    <3>2. UNCHANGED << p_stat, sload, npwakecnt, cpu, isr >> /\ Schedulable' = Schedulable
      BY <2>6 DEF ts_parmsset, Schedulable
    <3>3. CASE q \in tskpri
      BY <1>3, <2>6, <3>2, <3>3 DEF ts_parmsset
    <3>4. CASE q \notin tskpri /\ q = curproc
      <4>1. p_pri' = [p_pri EXCEPT ![q] = u] /\ curpri' = u /\ (u > dq.max \/ runrun')
            /\ (u > dq.max => UNCHANGED runrun)
        BY <2>6, <3>4 DEF ts_parmsset
      <4>2. CASE runrun'
        BY <1>2, <4>2
      <4>3. CASE u > dq.max
        <5> HIDE DEF u
        <5>1. \A r \in Schedulable : p_stat[r] = "SRUN" =>
                r # q /\ r \in Proc /\ p_pri[r] <= dq.max
          BY <1>1, <2>1, <3>4, MaxIsBest DEF NoneAbove
        <5>2. ASSUME NEW r \in Schedulable, p_stat[r] = "SRUN" PROVE p_pri'[r] <= u
          <6>1. p_pri'[r] = p_pri[r] /\ p_pri[r] <= dq.max /\ p_pri[r] \in Int
            BY <1>1, <4>1, <5>1, <5>2
          <6> QED BY <1>1, <3>1, <4>3, <6>1
        <5> QED BY <3>2, <4>1, <5>2 DEF PendInv, NoneAbove
      <4> QED BY <4>1, <4>2, <4>3
    <3>5. CASE q \notin tskpri /\ q # curproc /\ p_stat[q] = "SRUN"
      <4>1. OnQueue(dq, q, p_pri[q])
        BY <3>1, <3>5, QueuedFacts
      <4>2. p_pri' = [p_pri EXCEPT ![q] = u] /\ curpri' = curpri
            /\ runrun' = (runrun \/ u > curpri)
        BY <2>6, <3>5, <4>1 DEF ts_parmsset
      <4> HIDE DEF u
      <4> SUFFICES ASSUME ~ runrun', ~ npwakecnt, NEW r \in Schedulable, p_stat[r] = "SRUN"
                   PROVE  p_pri'[r] <= curpri
        BY <3>2, <4>2 DEF PendInv, NoneAbove
      <4>3. NoneAbove(curpri)
        BY <2>1, <4>2 DEF PendInv
      <4>4. CASE r = q
        <5>1. ~ (u > curpri) /\ p_pri'[r] = u
          BY <1>1, <4>2, <4>4
        <5> QED BY <1>1, <3>1, <5>1
      <4>5. CASE r # q
        <5>1. p_pri'[r] = p_pri[r]
          BY <1>1, <4>2, <4>5
        <5> QED BY <4>3, <5>1 DEF NoneAbove
      <4> QED BY <4>4, <4>5
    <3>6. CASE q \notin tskpri /\ q # curproc /\ p_stat[q] # "SRUN"
      <4>1. ~ OnQueue(dq, q, p_pri[q])
        BY <2>1, <3>1, <3>6, QueuedFacts DEF Queued
      <4>2. p_pri' = [p_pri EXCEPT ![q] = u] /\ curpri' = curpri /\ UNCHANGED runrun
        BY <2>6, <3>6, <4>1 DEF ts_parmsset
      <4>3. \A r \in Schedulable : p_stat[r] = "SRUN" => p_pri'[r] = p_pri[r]
        BY <1>1, <3>6, <4>2
      <4> QED BY <2>1, <3>2, <4>2, <4>3, PendKept
    <3> QED BY <3>3, <3>4, <3>5, <3>6
  <2>7. CASE TrapExit(p) \/ s_trap(p) \/ Exit(p)
    BY <1>2, <2>7 DEF TrapExit, s_trap, Exit, ts_preempt
  <2>8. CASE ts_trapret(p)
    <3> DEFINE u == umdpri(SlpRet[cpupri[p]], upri[p])
    <3>1. u \in Int
      BY Tables DEF IInv, TypeOK, Umd
    <3>2. UNCHANGED << p_stat, sload, npwakecnt, cpu, isr >> /\ Schedulable' = Schedulable
      BY <2>8 DEF ts_trapret, Schedulable
    <3>3. CASE p \notin tskpri
      BY <1>3, <2>8, <3>2, <3>3 DEF ts_trapret
    <3>4. CASE p \in tskpri
      <4>1. /\ p_pri' = [p_pri EXCEPT ![p] = u] /\ curpri' = u
            /\ runrun' = (runrun \/ (~ npwakecnt /\ u < dq.max))
        BY <2>8, <3>4 DEF ts_trapret, MustYield
      <4> HIDE DEF u
      <4>2. \A r \in Schedulable : p_stat[r] = "SRUN" =>
              r # p /\ r \in Proc /\ p_pri[r] <= dq.max
        BY <1>1, <2>1, MaxIsBest DEF NoneAbove
      <4>3. ~ runrun' /\ ~ npwakecnt => ~ (u < dq.max)
        BY <4>1
      <4>4. ASSUME ~ (u < dq.max), NEW r \in Schedulable, p_stat[r] = "SRUN"
            PROVE  p_pri'[r] <= u
        <5>1. p_pri'[r] = p_pri[r] /\ p_pri[r] <= dq.max /\ p_pri[r] \in Int
          BY <1>1, <4>1, <4>2, <4>4
        <5> QED BY <1>1, <3>1, <4>4, <5>1
      <4> QED BY <3>2, <4>1, <4>3, <4>4 DEF PendInv, NoneAbove
    <3> QED BY <3>3, <3>4
  <2> QED BY <1>4, <2>2, <2>3, <2>4, <2>5, <2>6, <2>7, <2>8 DEF ProcessStep
<1>5. ASSUME SchedStep
      PROVE  PendInv'
  <2>1. cpu \in {"run", "runhi"} /\ curproc = Sched /\ isr.op = "none"
    BY <1>1, <1>5 DEF SchedStep, SchedWaitOut, SchedUnload, SchedSwapin, SchedLoaded, SchedIo,
                      SchedUnloaded, SchedWaitIn, SchedSwapout, InSched
  <2>2. CASE SchedIo \/ SchedWaitIn \/ \E low \in MemLow : SchedWaitOut(low)
    BY <1>2, <2>2 DEF SchedIo, SchedWaitIn, SchedWaitOut, SchedSleep
  <2>3. CASE SchedUnloaded \/ \E low \in MemLow : \/ SchedUnload(low)
                                                   \/ \E p \in Ts : SchedSwapin(p, low)
    <3>1. UNCHANGED << p_stat, p_pri, sload, curpri, runrun, npwakecnt >>
      BY <2>3 DEF SchedUnloaded, SchedUnload, SchedSwapin, procVars, cpuVars
    <3> QED BY <2>1, <3>1, PendKept DEF Schedulable
  <2>4. ASSUME NEW p \in Ts, SchedSwapout(p)
        PROVE  PendInv'
    <3>1. UNCHANGED << p_stat, p_pri, curpri, runrun, npwakecnt >> /\ sload' = sload \ {p}
      BY <2>4 DEF SchedSwapout, cpuVars
    <3> QED BY <2>1, <3>1, PendKept DEF Schedulable
  <2>5. ASSUME NEW low \in MemLow, NEW ok \in BOOLEAN, SchedLoaded(ok, low)
        PROVE  PendInv'
    <3>1. UNCHANGED << p_stat, p_pri, curpri, runrun, npwakecnt >>
          /\ (sload' = sload \cup {nominee} \/ UNCHANGED sload)
      BY <2>5 DEF SchedLoaded, cpuVars
    <3>2. nominee \in Ts
      BY <2>5 DEF SchedLoaded, InSched, IInv, SchedInv
    <3>3. p_pri[nominee] <= curpri
      BY <1>1, <2>1, <3>2 DEF RankInv
    <3>4. PendInv => (~ runrun /\ ~ npwakecnt => NoneAbove(curpri))
      BY <2>1 DEF PendInv
    <3>5. ASSUME ~ runrun, ~ npwakecnt, NEW q \in Schedulable', p_stat[q] = "SRUN"
          PROVE  p_pri[q] <= curpri
      BY <3>1, <3>3, <3>4, <3>5 DEF NoneAbove, Schedulable
    <3> QED BY <3>1, <3>5 DEF PendInv, NoneAbove
  <2> QED BY <1>5, <2>2, <2>3, <2>4, <2>5 DEF SchedStep
<1>6. ASSUME SwitchStep
      PROVE  PendInv'
  <2>1. CASE PswtchEnter \/ PswtchIdle
    BY <1>2, <2>1 DEF PswtchEnter, PswtchIdle
  <2>2. ASSUME NEW p \in Proc, PswtchPick(p)
        PROVE  PendInv'
    <3>1. \A q \in Schedulable : p_stat[q] = "SRUN" => p_pri[q] <= p_pri[p]
      BY <2>2, PickIsHighest
    <3>2. /\ p_stat' = [p_stat EXCEPT ![p] = "SONPROC"] /\ curpri' = p_pri[p]
          /\ UNCHANGED << p_pri, sload >>
      BY <2>2 DEF PswtchPick
    <3>3. \A q \in Schedulable' : p_stat'[q] = "SRUN" => q \in Schedulable /\ p_stat[q] = "SRUN"
      BY <1>1, <3>2 DEF Schedulable
    <3> QED BY <3>1, <3>2, <3>3 DEF PendInv, NoneAbove
  <2> QED BY <1>6, <2>1, <2>2 DEF SwitchStep
<1>7. ASSUME LoopStep
      PROVE  PendInv'
  <2>1. ASSUME NEW p \in Proc, WakeOne(p)
        PROVE  PendInv'
    <3>1. /\ cpu' = cpu /\ isr.op # "ts_update" /\ p_stat' = [p_stat EXCEPT ![p] = "SRUN"]
          /\ npwakecnt' = (npwakecnt \/ isr.noprmpt)
          /\ runrun' = (runrun \/ (p \in sload /\ p_pri[p] > curpri /\ ~ isr.noprmpt))
          /\ UNCHANGED << sload, p_pri, curpri >>
      BY <2>1 DEF WakeOne
    <3>2. p \in Schedulable => p \in sload
      BY <1>1 DEF Schedulable
    <3>3. isr.noprmpt \in BOOLEAN
      BY DEF IInv, TypeOK, IsrState
    <3> QED BY <3>1, <3>2, <3>3, PendJoined
  <2>2. CASE WakeEnd
    <3>1. CASE isr.runsched
      BY <2>2, <3>1, PendSetrun DEF WakeEnd
    <3>2. CASE ~ isr.runsched
      BY <1>3, <2>2, <3>2 DEF WakeEnd
    <3> QED BY <3>1, <3>2
  <2>3. CASE UpdateOne
    <3>1. isr'.op = "ts_update"
      BY <2>3 DEF UpdateOne, IInv, TypeOK, IsrState
    <3> QED BY <1>2, <3>1
  <2>4. CASE UpdateEnd
    BY <1>2, <2>4 DEF UpdateEnd
  <2> QED BY <1>7, <2>1, <2>2, <2>3, <2>4 DEF LoopStep
<1>8. ASSUME Interrupt
      PROVE  PendInv'
  <2>1. isr.op = "none"
    BY <1>1, <1>8 DEF Interrupt, IoDone, Tick, UpdateBegin, EverySecond, InterruptsOn
  <2>2. ASSUME NEW ch, IoDone(ch)
        PROVE  PendInv'
    BY <1>3, <2>1, <2>2 DEF IoDone, procVars, cpuVars
  <2>3. CASE Tick
    <3>1. CASE timeleft[curproc] # 1
      BY <1>3, <2>1, <2>3, <3>1 DEF Tick
    <3>2. CASE timeleft[curproc] = 1
      BY <1>2, <2>3, <3>2 DEF Tick
    <3> QED BY <3>1, <3>2
  <2>4. CASE UpdateBegin
    BY <1>2, <2>4 DEF UpdateBegin, TsUpdate, NoIsr
  <2>5. ASSUME NEW low \in MemLow, EverySecond(low)
        PROVE  PendInv'
    BY <2>1, <2>5, PendSetrun DEF EverySecond
  <2> QED BY <1>8, <2>2, <2>3, <2>4, <2>5 DEF Interrupt
<1>9. CASE UNCHANGED vars
  BY <1>3, <1>9 DEF vars, procVars, cpuVars
<1> QED BY <1>4, <1>5, <1>6, <1>7, <1>8, <1>9 DEF Next

\* While something better than curproc is runnable, its preemption is on the way,
\* unless a wakeup asked for none: on every path by which a process becomes
\* runnable or loaded, curproc sinks or pswtch() chooses, with any tables in which
\* proc_sched waits at no lower priority than the others have.
THEOREM PreemptionKept ==
    ASSUME SysPriAbove
    PROVE  Spec => []PreemptionPending
<1>1. Init => RankInv /\ PendInv
  <2> SUFFICES ASSUME Init PROVE RankInv /\ PendInv
    OBVIOUS
  <2>1. runrun /\ Sched \in sload
    BY Consts DEF Init
  <2>2. \A p \in Ts, d \in {"PSWP", "PRIBIO"} : p_pri[p] <= SysPri[d]
    BY Consts DEF Init, SysPriAbove, Ts
  <2>3. p_pri[Sched] = SysPri["PSWP"]
    BY Consts DEF Init
  <2> QED BY <2>1, <2>2, <2>3 DEF RankInv, PendInv
<1>2. IInv /\ RankInv /\ PendInv /\ [Next]_vars => RankInv' /\ PendInv'
  BY RankStep, PendStep
<1>3. IInv /\ PendInv => PreemptionPending
  BY MaxIsBest DEF PendInv, PreemptionPending, NoIsr
<1> QED BY <1>1, <1>2, <1>3, Invariance, PTL DEF Spec

(***************************************************************************)
(* The order of two others survives the moves of a process.                *)
(***************************************************************************)

\* Moving a process to another queue keeps the order of two others.
LEMMA RequeueOrder ==
    ASSUME NEW pri \in [Proc -> Pri], NEW d, NEW S, Schedulable \subseteq Proc,
           QueueOK(d, Schedulable, pri, S), NEW x \in Proc, x \in S, NEW n \in Pri,
           NEW p, NEW q, x # p, x # q
    PROVE  KeepsOrder(d, Requeue(d, x, pri[x], n), p, q)
<1> DEFINE c == dispdeq(d, x, pri[x], x \in Schedulable)
<1>1. Sound(d, Schedulable) /\ OnQueue(d, x, pri[x])
  BY DEF QueueOK
<1>2. c \in Dispq
  BY <1>1, Consts, DispdeqSound DEF Sound
<1>3. KeepsOrder(d, c, p, q)
  BY <1>1, UnlinkOrder DEF Sound
<1> HIDE DEF c
<1>4. KeepsOrder(c, setbackdq(c, x, n, x \in Schedulable), p, q)
  BY <1>2, LinkOrder
<1>5. Requeue(d, x, pri[x], n) = setbackdq(c, x, n, x \in Schedulable)
  BY DEF Requeue, c
<1> QED BY <1>3, <1>4, <1>5 DEF KeepsOrder

\* The sleep queues of b have p before q wherever those of a have.
SleepOrder(a, b, p, q) ==
    \A n \in 0 .. NSleepq - 1 : Precedes(a[n], p, q) => Precedes(b[n], p, q)

\* Unlinking a sleeper keeps the order of two others.
LEMMA DropOrder ==
    ASSUME NEW sq, NEW w \in [Proc -> Chan \cup {NoChan}], SleepqOK(sq, w),
           NEW x \in Proc, w[x] \in Chan, NEW p, NEW q, x # p, x # q
    PROVE  SleepOrder(sq, [sq EXCEPT ![sqhash[w[x]]] = Drop(@, x)], p, q)
<1> DEFINE c == sqhash[w[x]]
           i == CHOOSE n \in DOMAIN sq[c] : sq[c][n] = x
<1>1. /\ sq \in [0 .. NSleepq - 1 -> Seq(Proc)] /\ c \in 0 .. NSleepq - 1
      /\ sq[c] \in Seq(Proc) /\ Holds(sq[c], x)
  BY DispatchAssumption DEF DispatchAssumption, SleepqOK
<1>2. i \in DOMAIN sq[c] /\ sq[c][i] = x
  BY <1>1 DEF Holds
<1> HIDE DEF i
<1>3. Precedes(sq[c], p, q) => Precedes(RemoveAt(sq[c], i), p, q)
  BY <1>1, <1>2, RemoveOrder
<1>4. [sq EXCEPT ![sqhash[w[x]]] = Drop(@, x)] = [sq EXCEPT ![c] = RemoveAt(sq[c], i)]
  BY DEF Drop, i
<1> QED BY <1>1, <1>3, <1>4 DEF SleepOrder

\* Linking one keeps the order of two others, and puts it behind those there.
LEMMA SleepOrderAdd ==
    ASSUME NEW sq \in [0 .. NSleepq - 1 -> Seq(Proc)], NEW ch \in Chan,
           NEW x \in Proc, NEW p, NEW q
    PROVE  LET t == [sq EXCEPT ![sqhash[ch]] = Append(@, x)]
           IN  /\ SleepOrder(sq, t, p, q)
               /\ Holds(sq[sqhash[ch]], p) => Precedes(t[sqhash[ch]], p, x)
<1>1. sqhash[ch] \in 0 .. NSleepq - 1 /\ sq[sqhash[ch]] \in Seq(Proc)
  BY DispatchAssumption DEF DispatchAssumption
<1> QED BY <1>1, AppendOrder DEF SleepOrder

(***************************************************************************)
(* The order in which two processes went to sleep.                         *)
(***************************************************************************)

\* Where a pair of ahead can be: both still asleep, p first on their queue; the
\* wakeprocs() in progress between the two; or both runnable, and if they have
\* one priority, p first on its queue.
BothAsleep(p, q) ==
    /\ p_wchan[p] \in Chan /\ p_wchan[q] = p_wchan[p]
    /\ Precedes(sleepq[sqhash[p_wchan[p]]], p, q)
BeingWoken(p, q) ==
    /\ p_stat[p] = "SRUN" /\ p_wchan[q] \in Chan
    /\ isr.op = "wakeprocs" /\ isr.chan = p_wchan[q]
BothReady(p, q) ==
    /\ p_stat[p] = "SRUN" /\ p_stat[q] = "SRUN"
    /\ p_pri[p] = p_pri[q] => Precedes(dq.q[p_pri[p]], p, q)
InOrder(p, q) == BothAsleep(p, q) \/ BeingWoken(p, q) \/ BothReady(p, q)

\* A process has its kernel-mode priority from its sleep() until it runs, so
\* nothing moves it on its queue.
OrderInv ==
    /\ \A p \in Ts : p_wchan[p] # NoChan => p \in tskpri
    /\ \A p, q \in Ts : << p, q >> \in ahead =>
           p # q /\ p \in tskpri /\ q \in tskpri /\ InOrder(p, q)

\* What a step leaves alone that does not concern p or q.
Untouched(p, q) ==
    /\ \A x \in {p, q} : /\ p_stat'[x] = p_stat[x] /\ p_wchan'[x] = p_wchan[x]
                        /\ p_pri'[x] = p_pri[x]
    /\ KeepsOrder(dq, dq', p, q) /\ SleepOrder(sleepq, sleepq', p, q)
    /\ p_wchan[q] \in Chan /\ isr.op = "wakeprocs" /\ isr.chan = p_wchan[q] =>
           isr'.op = isr.op /\ isr'.chan = isr.chan

LEMMA UntouchedKeeps ==
    ASSUME IInv, NEW p \in Ts, NEW q \in Ts, Untouched(p, q), InOrder(p, q)
    PROVE  InOrder(p, q)'
<1>1. p_pri[p] \in Pri /\ \A ch \in Chan : sqhash[ch] \in 0 .. NSleepq - 1
  BY Consts, DispatchAssumption DEF DispatchAssumption, IInv, TypeOK
<1>2. BothAsleep(p, q) => BothAsleep(p, q)'
  BY <1>1 DEF BothAsleep, Untouched, SleepOrder
<1>3. BeingWoken(p, q) => BeingWoken(p, q)'
  BY DEF BeingWoken, Untouched
<1>4. BothReady(p, q) => BothReady(p, q)'
  BY <1>1 DEF BothReady, Untouched, KeepsOrder
<1> QED BY <1>2, <1>3, <1>4 DEF InOrder

\* Who is in order is known not to run, and who runs not to sleep.
LEMMA OrderFacts ==
    ASSUME IInv
    PROVE  /\ dq \in Dispq /\ QueueOK(dq, Schedulable, p_pri, Queued)
           /\ SleepqOK(sleepq, p_wchan) /\ sleepq \in [0 .. NSleepq - 1 -> Seq(Proc)]
           /\ p_wchan \in [Proc -> Chan \cup {NoChan}] /\ p_stat \in [Proc -> Stat]
           /\ p_pri \in [Proc -> Pri] /\ curproc \in Proc /\ Schedulable \subseteq Proc
           /\ \A p \in Proc : p_stat[p] = "SSLEEP" <=> p_wchan[p] \in Chan
           /\ \A p, q \in Ts : InOrder(p, q) =>
                  /\ p_stat[p] \in {"SRUN", "SSLEEP"} /\ p_stat[q] \in {"SRUN", "SSLEEP"}
           /\ cpu \in {"run", "runhi", "preempt"} =>
                  p_stat[curproc] = "SONPROC" /\ p_wchan[curproc] = NoChan
<1>1. dq \in Dispq /\ QueueOK(dq, Schedulable, p_pri, Queued)
  BY DEF IInv, QueueInv, QueueOK, Sound
<1>2. SleepqOK(sleepq, p_wchan) /\ sleepq \in [0 .. NSleepq - 1 -> Seq(Proc)]
  BY DEF IInv, SleepInv, SleepqOK
<1>3. /\ p_wchan \in [Proc -> Chan \cup {NoChan}] /\ p_stat \in [Proc -> Stat]
      /\ p_pri \in [Proc -> Pri] /\ curproc \in Proc /\ Schedulable \subseteq Proc
  BY QueuedFacts DEF IInv, TypeOK
<1>4. \A p \in Proc : p_stat[p] = "SSLEEP" <=> p_wchan[p] \in Chan
  BY <1>3, Consts DEF IInv, SleepInv
<1>5. \A p, q \in Ts : InOrder(p, q) =>
          /\ p_stat[p] \in {"SRUN", "SSLEEP"} /\ p_stat[q] \in {"SRUN", "SSLEEP"}
  BY <1>4, Consts DEF InOrder, BothAsleep, BeingWoken, BothReady
<1>6. cpu \in {"run", "runhi", "preempt"} =>
          p_stat[curproc] = "SONPROC" /\ p_wchan[curproc] = NoChan
  BY <1>3, <1>4 DEF IInv, CpuInv, Executing
<1> QED BY <1>1, <1>2, <1>3, <1>4, <1>5, <1>6

Paired(p, q) == p # q /\ p \in tskpri /\ q \in tskpri /\ InOrder(p, q)

\* Steps that do not touch the queues, nor these two.
LEMMA NothingMoves ==
    ASSUME NEW p, NEW q, UNCHANGED << dq, sleepq >>,
           \A x \in {p, q} : /\ p_stat'[x] = p_stat[x] /\ p_wchan'[x] = p_wchan[x]
                             /\ p_pri'[x] = p_pri[x],
           isr.op = "wakeprocs" => isr'.op = isr.op /\ isr'.chan = isr.chan
    PROVE  Untouched(p, q)
  BY DEF Untouched, KeepsOrder, SleepOrder

\* setrun(proc_sched).
LEMMA SetrunOrder ==
    ASSUME IInv, SetrunSched, p_stat[Sched] = "SSLEEP", UNCHANGED p_pri,
           NEW p \in Ts, NEW q \in Ts,
           p_wchan[q] \in Chan /\ isr.op = "wakeprocs" /\ isr.chan = p_wchan[q] =>
               isr'.op = isr.op /\ isr'.chan = isr.chan
    PROVE  Untouched(p, q)
<1>1. p # Sched /\ q # Sched /\ p_wchan[Sched] \in Chan /\ p_pri[Sched] \in Pri
  BY OrderFacts, Consts
<1>2. /\ p_stat' = [p_stat EXCEPT ![Sched] = "SRUN"]
      /\ p_wchan' = [p_wchan EXCEPT ![Sched] = NoChan]
      /\ sleepq' = [sleepq EXCEPT ![sqhash[p_wchan[Sched]]] = Drop(@, Sched)]
      /\ dq' = setbackdq(dq, Sched, p_pri[Sched], TRUE)
  BY DEF SetrunSched
<1>3. KeepsOrder(dq, dq', p, q)
  BY <1>1, <1>2, OrderFacts, Consts, LinkOrder
<1>4. SleepOrder(sleepq, sleepq', p, q)
  BY <1>1, <1>2, OrderFacts, Consts, DropOrder
<1>5. \A x \in {p, q} : p_stat'[x] = p_stat[x] /\ p_wchan'[x] = p_wchan[x]
  BY <1>1, <1>2, OrderFacts, Consts
<1> QED BY <1>3, <1>4, <1>5 DEF Untouched

\* sleep() by the memory scheduler, loading or not a process meanwhile.
LEMMA SchedSleepOrder ==
    ASSUME IInv, NEW ch \in Chan, NEW disp, SchedSleep(ch, disp), UNCHANGED isr,
           dq' = dq \/ dq' = CountIn(nominee), NEW p \in Ts, NEW q \in Ts
    PROVE  Untouched(p, q)
<1>1. p # Sched /\ q # Sched
  BY Consts
<1>2. \A x \in {p, q} : /\ p_stat'[x] = p_stat[x] /\ p_wchan'[x] = p_wchan[x]
                        /\ p_pri'[x] = p_pri[x]
  BY <1>1, OrderFacts, Consts DEF SchedSleep
<1>3. KeepsOrder(dq, dq', p, q)
  BY DEF KeepsOrder, CountIn, dq_sruninc
<1>4. SleepOrder(sleepq, sleepq', p, q)
  BY OrderFacts, Consts, SleepOrderAdd DEF SchedSleep
<1> QED BY <1>2, <1>3, <1>4 DEF Untouched

\* sleep() by a time-sharing process x: the others keep their order, and x comes
\* after those that sleep on its channel.
LEMMA TsSleepOrder ==
    ASSUME IInv, NEW x \in Ts, Running(x), NEW ch \in IoChan, NEW disp,
           TsSleep(x, ch, disp), UNCHANGED isr, NEW p \in Ts
    PROVE  /\ \A q \in Ts : p # x /\ q # x => Untouched(p, q)
           /\ p_wchan[p] = ch => p # x /\ Precedes(sleepq'[sqhash[ch]], p, x)
           /\ p_wchan' = [p_wchan EXCEPT ![x] = ch]
              \/ p_wchan' = [p_wchan EXCEPT ![x] = ch, ![Sched] = NoChan]
<1> DEFINE sq == [sleepq EXCEPT ![sqhash[ch]] = Append(@, x)]
           w == [p_wchan EXCEPT ![x] = ch]
<1>1. /\ x # Sched /\ p # Sched /\ ch \in Chan /\ RunIn \in Chan /\ x = curproc
      /\ x \in Proc /\ p \in Proc /\ Sched \in Proc
  BY Consts DEF Chan, Running
<1>2. p_wchan[x] = NoChan
  BY <1>1, OrderFacts DEF Running
<1>3. SleepqOK(sq, w) /\ w \in [Proc -> Chan \cup {NoChan}]
  BY <1>1, <1>2, OrderFacts, AddSleeper
<1>4. /\ sq \in [0 .. NSleepq - 1 -> Seq(Proc)]
      /\ \A q \in Ts : SleepOrder(sleepq, sq, p, q)
      /\ p_wchan[p] = ch => Precedes(sq[sqhash[ch]], p, x)
  <2>1. p_wchan[p] = ch => Holds(sleepq[sqhash[ch]], p)
    BY <1>1, OrderFacts, DispatchAssumption DEF DispatchAssumption, SleepqOK
  <2>2. (\A q \in Ts : SleepOrder(sleepq, sq, p, q))
       /\ (Holds(sleepq[sqhash[ch]], p) => Precedes(sq[sqhash[ch]], p, x))
    <3>1. sleepq \in [0 .. NSleepq - 1 -> Seq(Proc)]
      BY OrderFacts
    <3> QED BY <1>1, <3>1, SleepOrderAdd
  <2>3. sq \in [0 .. NSleepq - 1 -> Seq(Proc)]
    BY <1>3 DEF SleepqOK
  <2> HIDE DEF sq, w
  <2>4. \A q \in Ts : SleepOrder(sleepq, sq, p, q)
    BY <2>2
  <2>5. p_wchan[p] = ch => Precedes(sq[sqhash[ch]], p, x)
    BY <2>1, <2>2
  <2> QED BY <2>3, <2>4, <2>5
<1>5. p_wchan[p] = ch => p # x
  BY <1>1, <1>2, Consts
<1>6. \A q \in Ts : p # x /\ q # x => p_pri'[p] = p_pri[p] /\ p_pri'[q] = p_pri[q]
  BY OrderFacts, Consts DEF TsSleep
<1>7. CASE disp = "PSLEP" /\ runin
  <2>1. w[Sched] = RunIn
    BY <1>1, <1>7, OrderFacts DEF IInv, SchedInv, SwapperArmed
  <2>2. /\ sleepq' = [sq EXCEPT ![sqhash[w[Sched]]] = Drop(@, Sched)]
        /\ p_wchan' = [p_wchan EXCEPT ![x] = ch, ![Sched] = NoChan]
        /\ p_stat' = [p_stat EXCEPT ![x] = "SSLEEP", ![Sched] = "SRUN"]
        /\ dq' = setbackdq(dq, Sched, p_pri[Sched], TRUE)
    BY <1>7, <2>1 DEF TsSleep
  <2> HIDE DEF sq, w
  <2>3. \A q \in Ts : SleepOrder(sq, sleepq', p, q)
    BY <1>1, <1>3, <2>1, <2>2, Consts, DropOrder
  <2>4. \A q \in Ts : KeepsOrder(dq, dq', p, q)
    BY <1>1, <2>2, OrderFacts, LinkOrder
  <2>5. \A q \in Ts : p # x /\ q # x =>
            \A y \in {p, q} : p_stat'[y] = p_stat[y] /\ p_wchan'[y] = p_wchan[y]
    BY <1>1, <2>2, OrderFacts, Consts
  <2>6. \A q \in Ts : SleepOrder(sleepq, sleepq', p, q)
    BY <1>4, <2>3 DEF SleepOrder
  <2>7. \A q \in Ts : p # x /\ q # x => Untouched(p, q)
    BY <1>6, <2>4, <2>5, <2>6 DEF Untouched
  <2>8. p_wchan[p] = ch => Precedes(sleepq'[sqhash[ch]], p, x)
    BY <1>1, <1>4, <2>3, DispatchAssumption DEF DispatchAssumption, SleepOrder
  <2> QED BY <1>5, <2>2, <2>7, <2>8
<1>8. CASE ~ (disp = "PSLEP" /\ runin)
  <2>1. /\ sleepq' = sq /\ p_wchan' = w /\ dq' = dq
        /\ p_stat' = [p_stat EXCEPT ![x] = "SSLEEP"]
    BY <1>8 DEF TsSleep
  <2>2. \A q \in Ts : p # x /\ q # x =>
            \A y \in {p, q} : p_stat'[y] = p_stat[y] /\ p_wchan'[y] = p_wchan[y]
    BY <1>1, <2>1, OrderFacts, Consts
  <2>3. \A q \in Ts : KeepsOrder(dq, dq', p, q)
    BY <2>1 DEF KeepsOrder
  <2>4. p_wchan' = [p_wchan EXCEPT ![x] = ch] /\ sleepq' = sq
    BY <2>1
  <2> HIDE DEF sq, w
  <2>5. \A q \in Ts : p # x /\ q # x => Untouched(p, q)
    BY <1>4, <1>6, <2>2, <2>3, <2>4 DEF Untouched
  <2> QED BY <1>4, <1>5, <2>4, <2>5
<1> QED BY <1>7, <1>8

\* The priority of a process x other than these changes, and it moves if queued.
LEMMA RepriOrder ==
    ASSUME IInv, NEW x \in Proc, NEW u \in Pri, p_pri' = [p_pri EXCEPT ![x] = u],
           dq' = IF OnQueue(dq, x, p_pri[x]) THEN Requeue(dq, x, p_pri[x], u) ELSE dq,
           UNCHANGED << p_stat, p_wchan, sleepq >>,
           isr.op = "wakeprocs" => isr'.op = isr.op /\ isr'.chan = isr.chan,
           NEW p \in Ts, NEW q \in Ts, p # x, q # x
    PROVE  Untouched(p, q)
<1>1. p_pri'[p] = p_pri[p] /\ p_pri'[q] = p_pri[q]
  BY OrderFacts, Consts
<1>2. KeepsOrder(dq, dq', p, q)
  <2>1. CASE OnQueue(dq, x, p_pri[x])
    <3>1. x \in Queued
      BY <2>1, QueuedFacts
    <3> QED BY <2>1, <3>1, OrderFacts, RequeueOrder
  <2>2. CASE ~ OnQueue(dq, x, p_pri[x])
    BY <2>2 DEF KeepsOrder
  <2> QED BY <2>1, <2>2
<1> QED BY <1>1, <1>2 DEF Untouched, SleepOrder

\* What a process does that has the processor touches nobody in order.
LEMMA ProcessOrder ==
    ASSUME IInv, NEW x \in Ts, ProcessStep(x), NEW p \in Ts, NEW q \in Ts, Paired(p, q)
    PROVE  Untouched(p, q)
<1> USE Consts
<1>1. /\ Running(x) /\ x = curproc /\ cpu = "run" /\ isr.op = "none"
      /\ p_stat[x] = "SONPROC"
  <2>1. Running(x)
    BY DEF ProcessStep, Syscall, Request, Post, WaitLoop, ts_parmsset, TrapExit,
           ts_trapret, s_trap, Exit
  <2> QED BY <2>1, OrderFacts DEF Running, NoIsr
<1>2. p # x /\ q # x /\ p \in tskpri /\ q \in tskpri
  BY <1>1, OrderFacts DEF Paired
<1>3. ASSUME ts_preempt(x) PROVE Untouched(p, q)
  <2>1. UNCHANGED << p_stat, p_pri, p_wchan, sleepq, isr >>
    BY <1>3 DEF ts_preempt, procVars
  <2>2. \/ dq' = setbackdq(dq, x, p_pri[x], x \in Schedulable)
        \/ dq' = setfrontdq(dq, x, p_pri[x], x \in Schedulable)
    BY <1>3 DEF ts_preempt
  <2>3. dq \in Dispq /\ x \in Proc /\ p_pri[x] \in Pri
    BY OrderFacts
  <2>4. KeepsOrder(dq, dq', p, q)
    BY <2>2, <2>3, LinkOrder
  <2> QED BY <2>1, <2>4 DEF Untouched, SleepOrder
<1>4. CASE Syscall(x)
  BY <1>1, <1>4, NothingMoves DEF Syscall, procVars, queueVars
<1>5. ASSUME NEW ch \in IoChan, NEW start \in BOOLEAN, NEW disp \in SleepDisp,
             Request(x, ch, start, disp)
      PROVE  Untouched(p, q)
  BY <1>1, <1>5, NothingMoves DEF Request, procVars, queueVars
<1>6. ASSUME NEW ch \in IoChan, NEW np \in PostFlags, Post(x, ch, np)
      PROVE  Untouched(p, q)
  BY <1>1, <1>6, NothingMoves DEF Post, procVars, queueVars
<1>7. CASE WaitLoop(x)
  <2>1. CASE want[x] \in done
    BY <1>1, <1>7, <2>1, NothingMoves DEF WaitLoop, procVars, queueVars
  <2>2. CASE want[x] \notin done
    <3>1. want[x] \in IoChan
      BY <1>7 DEF WaitLoop, IInv, EventInv
    <3> QED BY <1>1, <1>2, <1>7, <2>2, <3>1, TsSleepOrder DEF WaitLoop
  <2> QED BY <2>1, <2>2
<1>8. ASSUME NEW y \in Ts, NEW new \in MinUpri .. 0, ts_parmsset(x, y, new)
      PROVE  Untouched(p, q)
  <2> DEFINE u == umdpri(cpupri[y], new)
  <2>1. y \in Proc /\ u \in Pri
    BY UmdpriType DEF IInv, TypeOK
  <2>2. UNCHANGED << p_stat, p_wchan, sleepq, isr >>
    BY <1>8 DEF ts_parmsset
  <2>3. CASE y \in tskpri
    BY <1>1, <1>8, <2>2, <2>3, NothingMoves DEF ts_parmsset
  <2>4. CASE y \notin tskpri
    <3>1. y # p /\ y # q
      BY <1>2, <2>4
    <3> HIDE DEF u
    <3>2. p_pri' = [p_pri EXCEPT ![y] = u]
      BY <1>8, <2>4 DEF ts_parmsset, u
    <3>3. dq' = IF OnQueue(dq, y, p_pri[y]) THEN Requeue(dq, y, p_pri[y], u) ELSE dq
      <4>1. y = curproc => ~ OnQueue(dq, y, p_pri[y])
        BY <1>1, <2>1, QueuedFacts
      <4> QED BY <1>8, <2>4, <4>1 DEF ts_parmsset, u
    <3> QED BY <1>1, <2>1, <2>2, <3>1, <3>2, <3>3, RepriOrder
  <2> QED BY <2>3, <2>4
<1>9. CASE TrapExit(x)
  BY <1>3, <1>9 DEF TrapExit
<1>10. CASE ts_trapret(x)
  <2>1. UNCHANGED << p_stat, p_wchan, sleepq, dq, isr >>
    BY <1>10 DEF ts_trapret, queueVars
  <2>2. p_pri' = p_pri \/ \E u : p_pri' = [p_pri EXCEPT ![x] = u]
    BY <1>10 DEF ts_trapret
  <2>3. p_pri'[p] = p_pri[p] /\ p_pri'[q] = p_pri[q]
    BY <1>2, <2>2, OrderFacts
  <2> QED BY <1>1, <2>1, <2>3, NothingMoves
<1>11. CASE s_trap(x)
  BY <1>3, <1>11 DEF s_trap
<1>12. CASE Exit(x)
  <2>1. /\ p_stat' = [p_stat EXCEPT ![x] = "SZOMB"]
        /\ UNCHANGED << p_pri, p_wchan, dq, sleepq, isr >>
    BY <1>12 DEF Exit, queueVars
  <2>2. p_stat'[p] = p_stat[p] /\ p_stat'[q] = p_stat[q]
    BY <1>2, <2>1, OrderFacts
  <2> QED BY <1>1, <2>1, <2>2, NothingMoves
<1> QED
  BY <1>4, <1>5, <1>6, <1>7, <1>8, <1>9, <1>10, <1>11, <1>12 DEF ProcessStep

\* Nor does the memory scheduler: swapping changes the counts, not the queues.
LEMMA SchedOrder ==
    ASSUME IInv, SchedStep, NEW p \in Ts, NEW q \in Ts
    PROVE  Untouched(p, q)
<1> USE Consts
<1>1. ASSUME UNCHANGED << p_stat, p_pri, p_wchan, sleepq, isr >>, dq'.q = dq.q
      PROVE  Untouched(p, q)
  BY <1>1 DEF Untouched, KeepsOrder, SleepOrder
<1>2. ASSUME NEW low \in MemLow, SchedWaitOut(low)
      PROVE  Untouched(p, q)
  BY <1>2, SchedSleepOrder DEF SchedWaitOut
<1>3. ASSUME NEW low \in MemLow, SchedUnload(low)
      PROVE  Untouched(p, q)
  BY <1>1, <1>3 DEF SchedUnload, procVars, queueVars
<1>4. ASSUME NEW low \in MemLow, NEW x \in Ts, SchedSwapin(x, low)
      PROVE  Untouched(p, q)
  BY <1>1, <1>4 DEF SchedSwapin, procVars, queueVars
<1>5. ASSUME NEW low \in MemLow, NEW ok \in BOOLEAN, SchedLoaded(ok, low)
      PROVE  Untouched(p, q)
  <2>1. dq' = dq \/ dq' = CountIn(nominee)
    BY <1>5 DEF SchedLoaded
  <2>2. dq'.q = dq.q
    BY <2>1 DEF CountIn, dq_sruninc
  <2> QED BY <1>1, <1>5, <2>2 DEF SchedLoaded
<1>6. CASE SchedIo
  BY <1>6, SchedSleepOrder DEF SchedIo, IoEvent
<1>7. CASE SchedUnloaded
  BY <1>1, <1>7 DEF SchedUnloaded, procVars, queueVars
<1>8. CASE SchedWaitIn
  BY <1>8, SchedSleepOrder DEF SchedWaitIn
<1>9. ASSUME NEW x \in Ts, SchedSwapout(x)
      PROVE  Untouched(p, q)
  <2>1. dq'.q = dq.q
    BY <1>9 DEF SchedSwapout, CountOut, dq_srundec
  <2> QED BY <1>1, <1>9, <2>1 DEF SchedSwapout
<1> QED
  BY <1>2, <1>3, <1>4, <1>5, <1>6, <1>7, <1>8, <1>9 DEF SchedStep

\* pswtch() takes away one that is then on the processor.
LEMMA SwitchOrder ==
    ASSUME IInv, SwitchStep, NEW p \in Ts, NEW q \in Ts, Paired(p, q),
           p_stat'[p] # "SONPROC", p_stat'[q] # "SONPROC"
    PROVE  Untouched(p, q)
<1> USE Consts
<1>1. CASE PswtchEnter
  <2>1. /\ p_stat' = [p_stat EXCEPT ![curproc] = "SRUN"]
        /\ UNCHANGED << p_pri, p_wchan, dq, sleepq, isr >>
    BY <1>1 DEF PswtchEnter, queueVars
  <2>2. p # curproc /\ q # curproc
    BY <1>1, OrderFacts DEF PswtchEnter, Paired
  <2>3. p_stat'[p] = p_stat[p] /\ p_stat'[q] = p_stat[q]
    BY <2>1, <2>2, OrderFacts
  <2> QED BY <2>1, <2>3, NothingMoves
<1>2. CASE PswtchIdle
  BY <1>2, NothingMoves DEF PswtchIdle, procVars, queueVars
<1>3. ASSUME NEW x \in Proc, PswtchPick(x)
      PROVE  Untouched(p, q)
  <2>1. /\ p_stat' = [p_stat EXCEPT ![x] = "SONPROC"]
        /\ dq' = dispdeq(dq, x, dq.max, TRUE)
        /\ UNCHANGED << p_pri, p_wchan, sleepq, isr >>
    BY <1>3 DEF PswtchPick
  <2>2. p # x /\ q # x
    BY <2>1, OrderFacts
  <2>3. p_stat'[p] = p_stat[p] /\ p_stat'[q] = p_stat[q]
    BY <2>1, <2>2, OrderFacts
  <2>4. dq.max \in Pri
    BY <1>3, OrderFacts DEF PswtchPick, Dispq
  <2>5. KeepsOrder(dq, dq', p, q)
    BY <2>1, <2>2, <2>4, OrderFacts, UnlinkOrder
  <2> QED BY <2>1, <2>3, <2>5 DEF Untouched, SleepOrder
<1> QED BY <1>1, <1>2, <1>3 DEF SwitchStep

\* An interrupt only begins to wake the sleepers, or moves a process that runs.
LEMMA InterruptOrder ==
    ASSUME IInv, Interrupt, NEW p \in Ts, NEW q \in Ts, Paired(p, q)
    PROVE  Untouched(p, q)
<1> USE Consts
<1>1. isr.op = "none"
  <2>1. InterruptsOn
    BY DEF Interrupt, IoDone, Tick, UpdateBegin, EverySecond
  <2> QED BY <2>1 DEF InterruptsOn, NoIsr
<1>2. ASSUME NEW ch \in IoChan \cup {SwapIo}, IoDone(ch)
      PROVE  Untouched(p, q)
  BY <1>1, <1>2, NothingMoves DEF IoDone, procVars, queueVars
<1>3. CASE Tick
  <2> DEFINE x == curproc
             u == umdpri(TqExp[cpupri[x]], upri[x])
  <2>1. x \in Proc /\ u \in Pri
    <3>1. x \in Ts
      BY <1>3, OrderFacts DEF Tick, Ts
    <3>2. TqExp[cpupri[x]] \in Umd /\ upri[x] \in MinUpri .. 0
      BY <3>1, DispatchAssumption DEF DispatchAssumption, IInv, TypeOK
    <3> QED BY <3>1, <3>2, UmdpriType
  <2>2. UNCHANGED << p_stat, p_wchan, sleepq, isr >> /\ x # p /\ x # q
    BY <1>3 DEF Tick, Paired
  <2>3. \/ UNCHANGED << p_pri, dq >>
        \/ /\ p_pri' = [p_pri EXCEPT ![x] = u]
           /\ dq' = IF OnQueue(dq, x, p_pri[x]) THEN Requeue(dq, x, p_pri[x], u)
                    ELSE dq
    BY <1>3 DEF Tick
  <2> HIDE DEF x, u
  <2>4. CASE UNCHANGED << p_pri, dq >>
    BY <2>2, <2>4, NothingMoves
  <2> QED BY <2>1, <2>2, <2>3, <2>4, RepriOrder
<1>4. CASE UpdateBegin
  BY <1>1, <1>4, NothingMoves DEF UpdateBegin, procVars, queueVars
<1>5. ASSUME NEW low \in MemLow, EverySecond(low)
      PROVE  Untouched(p, q)
  <2>1. p_stat[Sched] = "SSLEEP"
    BY <1>5 DEF EverySecond, SchedDue, IInv, SchedInv, SwapperArmed, SleepInv
  <2> QED BY <1>5, <2>1, SetrunOrder DEF EverySecond
<1> QED BY <1>2, <1>3, <1>4, <1>5 DEF Interrupt

\* wakeprocs() takes the sleepers of its channel in the order they went to sleep.
LEMMA WakeOrder ==
    ASSUME IInv, NEW x \in Proc, WakeOne(x), NEW p \in Ts, NEW q \in Ts, Paired(p, q)
    PROVE  InOrder(p, q)'
<1> USE Consts
<1> DEFINE s == sleepq[sqhash[isr.chan]]
<1>1. /\ isr.op = "wakeprocs" /\ isr'.op = "wakeprocs" /\ isr'.chan = isr.chan
      /\ isr.chan \in Chan /\ p_wchan[x] = isr.chan /\ p_stat[x] = "SSLEEP"
  <2>1. isr.op = "wakeprocs" /\ isr.chan \in Chan /\ p_wchan[x] = isr.chan
    BY DEF WakeOne, IInv, SchedInv
  <2>2. isr'.op = isr.op /\ isr'.chan = isr.chan
    BY DEF WakeOne, IInv, TypeOK, IsrState
  <2> QED BY <2>1, <2>2, OrderFacts
<1>2. /\ p_stat' = [p_stat EXCEPT ![x] = "SRUN"]
      /\ p_wchan' = [p_wchan EXCEPT ![x] = NoChan]
      /\ sleepq' = [sleepq EXCEPT ![sqhash[p_wchan[x]]] = Drop(@, x)]
      /\ dq' = setbackdq(dq, x, p_pri[x], x \in Schedulable)
      /\ p_pri' = p_pri
  BY <1>1 DEF WakeOne
<1>3. dq \in Dispq /\ p_pri[x] \in Pri /\ p_stat \in [Proc -> Stat]
      /\ p_wchan \in [Proc -> Chan \cup {NoChan}] /\ p \in Proc /\ q \in Proc
  BY OrderFacts
<1>4. KeepsOrder(dq, dq', p, q)
  BY <1>2, <1>3, LinkOrder
<1>5. CASE x # p /\ x # q
  <2>1. \A y \in {p, q} : p_stat'[y] = p_stat[y] /\ p_wchan'[y] = p_wchan[y]
    BY <1>2, <1>3, <1>5
  <2>2. SleepOrder(sleepq, sleepq', p, q)
    BY <1>1, <1>2, <1>5, OrderFacts, DropOrder
  <2>3. Untouched(p, q)
    BY <1>1, <1>2, <1>4, <2>1, <2>2 DEF Untouched
  <2> QED BY <2>3, UntouchedKeeps DEF Paired
<1>6. CASE x = p
  <2>1. BothAsleep(p, q)
    BY <1>1, <1>6 DEF Paired, InOrder, BeingWoken, BothReady
  <2>2. p_stat'[p] = "SRUN" /\ p_wchan'[q] = isr.chan
    BY <1>1, <1>2, <1>3, <1>6, <2>1 DEF Paired, BothAsleep
  <2> QED BY <1>1, <2>2 DEF InOrder, BeingWoken
<1>7. CASE x = q
  <2>1. ~ BothReady(p, q)
    BY <1>1, <1>7 DEF BothReady
  <2>2. ~ BothAsleep(p, q)
    <3> SUFFICES ASSUME BothAsleep(p, q) PROVE FALSE
      OBVIOUS
    <3>1. PICK i, j \in DOMAIN s : i < j /\ s[i] = p /\ s[j] = q
      BY <1>1, <1>7 DEF BothAsleep, Precedes
    <3>2. PICK n \in DOMAIN s : /\ s[n] = q
                               /\ \A m \in 1 .. n - 1 : p_wchan[s[m]] # isr.chan
      BY <1>7 DEF WakeOne
    <3>3. sqhash[isr.chan] \in 0 .. NSleepq - 1 /\ s \in Seq(Proc)
      BY <1>1, OrderFacts, DispatchAssumption DEF DispatchAssumption
    <3>4. Injective(s)
      BY <3>3, OrderFacts DEF SleepqOK
    <3>5. n = j
      BY <3>1, <3>2, <3>4 DEF Injective
    <3>6. i \in 1 .. n - 1
      BY <3>1, <3>3, <3>5
    <3>7. p_wchan[p] = isr.chan
      BY <1>1, <1>7 DEF BothAsleep
    <3> QED BY <3>1, <3>2, <3>6, <3>7
  <2>3. p_stat[p] = "SRUN"
    BY <2>1, <2>2 DEF Paired, InOrder, BeingWoken
  <2>4. OnQueue(dq, p, p_pri[p])
    BY <2>3, QueuedFacts
  <2>5. p_pri[p] = p_pri[q] => Precedes(dq'.q[p_pri[p]], p, q)
    BY <1>2, <1>3, <1>7, <2>4, LinkOrder
  <2>6. p_stat'[p] = "SRUN" /\ p_stat'[q] = "SRUN"
    BY <1>2, <1>3, <1>7, <2>3
  <2> QED BY <1>2, <2>5, <2>6 DEF InOrder, BothReady
<1> QED BY <1>5, <1>6, <1>7

\* The loops at splhi keep the order: ts_update() passes over those that have a
\* kernel-mode priority.
LEMMA LoopOrder ==
    ASSUME IInv, LoopStep, NEW p \in Ts, NEW q \in Ts, Paired(p, q)
    PROVE  InOrder(p, q)'
<1> USE Consts
<1>1. ASSUME NEW x \in Proc, WakeOne(x)
      PROVE  InOrder(p, q)'
  BY <1>1, WakeOrder
<1>2. CASE WakeEnd
  <2>1. ~ (p_wchan[q] \in Chan /\ isr.op = "wakeprocs" /\ isr.chan = p_wchan[q])
    BY <1>2, WakeEndLeavesNone
  <2>2. CASE isr.runsched
    <3>1. p_stat[Sched] = "SSLEEP"
      BY <1>2, <2>2 DEF WakeEnd, IInv, SchedInv, SwapperArmed, SleepInv
    <3>2. Untouched(p, q)
      BY <1>2, <2>1, <2>2, <3>1, SetrunOrder DEF WakeEnd
    <3> QED BY <3>2, UntouchedKeeps DEF Paired
  <2>3. CASE ~ isr.runsched
    <3>1. Untouched(p, q)
      BY <1>2, <2>1, <2>3 DEF WakeEnd, Untouched, KeepsOrder, SleepOrder
    <3> QED BY <3>1, UntouchedKeeps DEF Paired
  <2> QED BY <2>2, <2>3
<1>3. CASE UpdateOne
  <2> DEFINE x == TsList[isr.i]
             u == umdpri(LWait[cpupri[x]], upri[x])
  <2>1. x \in Proc /\ u \in Pri
    <3>1. x \in Ts
      BY <1>3, ListType DEF UpdateOne, IInv, SchedInv, TypeOK, IsrState
    <3>2. LWait[cpupri[x]] \in Umd /\ upri[x] \in MinUpri .. 0
      BY <3>1, DispatchAssumption DEF DispatchAssumption, IInv, TypeOK
    <3> QED BY <3>1, <3>2, UmdpriType
  <2>2. UNCHANGED << p_stat, p_wchan, sleepq >> /\ isr.op # "wakeprocs"
    BY <1>3 DEF UpdateOne
  <2>3. \/ UNCHANGED << p_pri, dq >>
        \/ /\ p_pri' = [p_pri EXCEPT ![x] = u] /\ x \notin tskpri
           /\ dq' = IF OnQueue(dq, x, p_pri[x]) THEN Requeue(dq, x, p_pri[x], u)
                    ELSE dq
    BY <1>3 DEF UpdateOne
  <2> HIDE DEF x, u
  <2>4. CASE UNCHANGED << p_pri, dq >>
    BY <2>2, <2>4, NothingMoves, UntouchedKeeps DEF Paired
  <2>5. CASE x \notin tskpri
    <3>1. x # p /\ x # q
      BY <2>5 DEF Paired
    <3> QED BY <2>1, <2>2, <2>3, <2>4, <3>1, RepriOrder, UntouchedKeeps DEF Paired
  <2> QED BY <2>3, <2>4, <2>5
<1>4. CASE UpdateEnd
  BY <1>4, NothingMoves, UntouchedKeeps DEF UpdateEnd, procVars, queueVars, Paired
<1> QED BY <1>1, <1>2, <1>3, <1>4 DEF LoopStep

\* A process that does not run keeps TSKPRI.
LEMMA KpriKept ==
    ASSUME IInv, [Next]_vars, NEW p \in Ts, p \in tskpri, p_stat[p] # "SONPROC"
    PROVE  p \in tskpri'
<1>1. ASSUME NEW x \in Ts, ProcessStep(x)
      PROVE  p \in tskpri'
  <2>1. UNCHANGED tskpri \/ tskpri' = tskpri \cup {x} \/ ts_trapret(x)
    BY <1>1 DEF ProcessStep, Syscall, Request, Post, WaitLoop, TsSleep, ts_parmsset,
                TrapExit, s_trap, ts_preempt, Exit, tsVars
  <2>2. CASE ts_trapret(x)
    <3>1. x # p
      BY <2>2, OrderFacts DEF ts_trapret, Running
    <3> QED BY <2>2, <3>1 DEF ts_trapret
  <2> QED BY <2>1, <2>2
<1>2. ~ (\E x \in Ts : ProcessStep(x)) => UNCHANGED tskpri
  BY DEF Next, SchedStep, SchedWaitOut, SchedUnload, SchedSwapin, SchedLoaded, SchedIo,
         SchedUnloaded, SchedWaitIn, SchedSwapout, SwitchStep, PswtchEnter, PswtchIdle,
         PswtchPick, LoopStep, WakeOne, WakeEnd, UpdateOne, UpdateEnd, Interrupt,
         IoDone, Tick, UpdateBegin, EverySecond, tsVars, vars
<1> QED BY <1>1, <1>2

\* Only sleep() puts a time-sharing process to sleep.
LEMMA OnlySleepSleeps ==
    ASSUME IInv, Next, NEW q \in Ts, p_wchan[q] = NoChan, p_wchan'[q] # NoChan
    PROVE  /\ Running(q) /\ UNCHANGED isr
           /\ \E ch \in IoChan, disp \in Disp : TsSleep(q, ch, disp)
<1> USE Consts
<1>1. p_wchan \in [Proc -> Chan \cup {NoChan}]
  BY OrderFacts
<1>2. ASSUME NEW x \in Ts, ProcessStep(x)
      PROVE  /\ Running(q) /\ UNCHANGED isr
             /\ \E ch \in IoChan, disp \in Disp : TsSleep(q, ch, disp)
  <2>1. p_wchan' # p_wchan
    OBVIOUS
  <2>2. WaitLoop(x) /\ want[x] \notin done
    BY <1>2, <2>1 DEF ProcessStep, Syscall, Request, WaitLoop, Post, ts_parmsset,
                TrapExit, ts_trapret, s_trap, Exit, ts_preempt, procVars
  <2>3. want[x] \in IoChan
    BY <2>2 DEF WaitLoop, IInv, EventInv
  <2>4. PICK disp \in Disp : TsSleep(x, want[x], disp)
    BY <2>2 DEF WaitLoop, Disp
  <2>5. x = q
    <3>1. Running(x)
      BY <2>2 DEF WaitLoop
    <3>2. x # q => Untouched(q, q)
      BY <2>2, <2>3, <2>4, <3>1, TsSleepOrder DEF WaitLoop
    <3> QED BY <3>2 DEF Untouched
  <2> QED BY <2>2, <2>3, <2>4, <2>5 DEF WaitLoop
<1>3. ASSUME SchedStep
      PROVE  FALSE
  BY <1>3, SchedOrder DEF Untouched
<1>4. ASSUME SwitchStep
      PROVE  FALSE
  BY <1>4 DEF SwitchStep, PswtchEnter, PswtchIdle, PswtchPick, procVars
<1>5. ASSUME LoopStep \/ Interrupt
      PROVE  FALSE
  <2>1. UNCHANGED p_wchan \/ \E x \in Proc : p_wchan' = [p_wchan EXCEPT ![x] = NoChan]
    BY <1>5 DEF LoopStep, WakeOne, WakeEnd, UpdateOne, UpdateEnd, Interrupt, IoDone,
                Tick, UpdateBegin, EverySecond, SetrunSched, procVars
  <2> QED BY <1>1, <2>1
<1> QED BY <1>2, <1>3, <1>4, <1>5 DEF Next

\* A pair that comes in order stays so until one of them runs.
LEMMA PairKept ==
    ASSUME IInv, Next, NEW p \in Ts, NEW q \in Ts, Paired(p, q),
           p_stat'[p] # "SONPROC", p_stat'[q] # "SONPROC"
    PROVE  Paired(p, q)'
<1>1. p \in tskpri' /\ q \in tskpri'
  BY OrderFacts, KpriKept DEF Paired
<1>2. CASE LoopStep
  BY <1>1, <1>2, LoopOrder DEF Paired
<1>3. CASE ~ LoopStep
  <2>1. Untouched(p, q)
    BY <1>3, ProcessOrder, SchedOrder, SwitchOrder, InterruptOrder DEF Next
  <2> QED BY <1>1, <2>1, UntouchedKeeps DEF Paired
<1> QED BY <1>2, <1>3

\* A pair begins with the second behind the first on the sleep queue.
LEMMA PairBegins ==
    ASSUME IInv, OrderInv, Next, NEW p \in Ts, NEW q \in Ts, SleepsAfter(p, q)
    PROVE  Paired(p, q)'
<1> USE Consts
<1>1. /\ p_wchan[p] # NoChan /\ p_wchan[q] = NoChan /\ p_wchan'[q] # NoChan
      /\ p_wchan'[p] = p_wchan[p] /\ p_wchan'[q] = p_wchan[p] /\ p # q
  BY DEF SleepsAfter, Asleep
<1>2. p_wchan \in [Proc -> Chan \cup {NoChan}] /\ p_stat[p] = "SSLEEP"
  BY <1>1, OrderFacts
<1>3. Running(q) /\ UNCHANGED isr
  BY <1>1, OnlySleepSleeps
<1>4. PICK ch \in IoChan, disp \in Disp : TsSleep(q, ch, disp)
  BY <1>1, OnlySleepSleeps
<1>5. /\ p_wchan[p] = ch => Precedes(sleepq'[sqhash[ch]], p, q)
      /\ \/ p_wchan' = [p_wchan EXCEPT ![q] = ch]
         \/ p_wchan' = [p_wchan EXCEPT ![q] = ch, ![Sched] = NoChan]
  BY <1>3, <1>4, TsSleepOrder
<1>6. p_wchan'[q] = ch /\ ch \in Chan
  BY <1>2, <1>5 DEF Chan
<1>7. BothAsleep(p, q)'
  BY <1>1, <1>5, <1>6 DEF BothAsleep
<1>8. p \in tskpri' /\ q \in tskpri'
  <2>1. p \in tskpri
    BY <1>1 DEF OrderInv
  <2> QED BY <2>1, <1>2, <1>4, KpriKept DEF TsSleep
<1> QED BY <1>1, <1>7, <1>8 DEF Paired, InOrder

LEMMA OrderStep ==
    ASSUME IInv, OrderInv, [HNext]_hvars
    PROVE  OrderInv'
<1>1. CASE UNCHANGED hvars
  BY <1>1 DEF hvars, vars, procVars, queueVars, cpuVars, swapVars, tsVars, progVars,
              OrderInv, InOrder, BothAsleep, BeingWoken, BothReady
<1>2. CASE HNext
  <2>1. Next
    BY <1>2 DEF HNext
  <2>2. ASSUME NEW p \in Ts, p_wchan'[p] # NoChan
        PROVE  p \in tskpri'
    <3>1. CASE p_wchan[p] = NoChan
      BY <2>1, <2>2, <3>1, OnlySleepSleeps DEF TsSleep
    <3>2. CASE p_wchan[p] # NoChan
      <4>1. p_stat[p] = "SSLEEP"
        BY <3>2, OrderFacts, Consts
      <4> QED BY <2>1, <3>2, <4>1, KpriKept DEF OrderInv
    <3> QED BY <3>1, <3>2
  <2>3. ASSUME NEW p \in Ts, NEW q \in Ts, << p, q >> \in ahead'
        PROVE  Paired(p, q)'
    <3>1. /\ << p, q >> \in ahead \/ SleepsAfter(p, q)
          /\ p_stat'[p] # "SONPROC" /\ p_stat'[q] # "SONPROC"
      BY <1>2, <2>3 DEF HNext
    <3>2. CASE << p, q >> \in ahead
      <4>1. Paired(p, q)
        BY <3>2 DEF OrderInv, Paired
      <4> QED BY <2>1, <3>1, <4>1, PairKept
    <3>3. CASE SleepsAfter(p, q)
      BY <2>1, <3>3, PairBegins
    <3> QED BY <3>1, <3>2, <3>3
  <2> QED BY <2>2, <2>3 DEF OrderInv, Paired
<1> QED BY <1>1, <1>2

\* pswtch() runs no second of a pair before a first that could run as well.
LEMMA PickInOrder ==
    ASSUME IInv, NEW p \in Ts, NEW q \in Ts, Paired(p, q), PswtchPick(q),
           p_stat[p] = "SRUN", p \in sload
    PROVE  p_pri[q] > p_pri[p]
<1> USE Consts
<1> DEFINE s == dq.q[dq.max]
<1>1. p \in Schedulable /\ p_pri[p] \in Int /\ p_pri[q] \in Int
  BY OrderFacts, MaxPriAssumption DEF Schedulable, Pri
<1>2. p_pri[p] <= p_pri[q]
  BY <1>1, PickIsHighest
<1>3. dq.max \in Pri /\ IsFirst(dq, Schedulable, q)
  BY OrderFacts DEF PswtchPick, Dispq
<1>4. OnQueue(dq, q, dq.max)
  BY <1>3 DEF IsFirst, OnQueue
<1>5. p_pri[q] = dq.max /\ q \in Queued
  BY <1>3, <1>4, OrderFacts DEF QueueOK
<1>6. p_stat[q] = "SRUN"
  BY <1>5, QueuedFacts, OrderFacts DEF Paired
<1>7. p_pri[p] = p_pri[q] => Precedes(s, p, q)
  <2>1. BothReady(p, q)
    BY <1>6, OrderFacts DEF Paired, InOrder, BothAsleep, BeingWoken
  <2> QED BY <1>5, <2>1 DEF BothReady
<1>8. ~ Precedes(s, p, q)
  <2> SUFFICES ASSUME Precedes(s, p, q) PROVE FALSE
    OBVIOUS
  <2>1. PICK i, j \in DOMAIN s : i < j /\ s[i] = p /\ s[j] = q
    BY DEF Precedes
  <2>2. PICK n \in DOMAIN s : s[n] = q /\ \A m \in 1 .. n - 1 : s[m] \notin Schedulable
    BY <1>3 DEF IsFirst
  <2>3. s \in Seq(Proc) /\ Injective(s)
    <3>1. dq \in Dispq /\ Distinct(dq)
      BY OrderFacts DEF QueueOK, Sound
    <3>2. \A k \in Pri : dq.q[k] \in Seq(Proc) /\ Injective(dq.q[k])
      BY <3>1, DistinctByQueue DEF Dispq
    <3> QED BY <1>3, <3>2
  <2>4. n = j
    BY <2>1, <2>2, <2>3 DEF Injective
  <2>5. i \in 1 .. n - 1
    BY <2>1, <2>3, <2>4
  <2> QED BY <1>1, <2>1, <2>2, <2>5
<1> QED BY <1>1, <1>2, <1>7, <1>8

\* Of those that slept on a channel the first to go to sleep is the first to run,
\* but for priority and swapping.
THEOREM SleepersRunInOrder == HSpec => SleepOrderKept
<1>1. HInit => Init /\ OrderInv
  <2>1. Init => \A p \in Ts : p_wchan[p] = NoChan
    BY Consts DEF Init
  <2> QED BY <2>1 DEF HInit, OrderInv
<1>2. [HNext]_hvars => [Next]_vars
  BY DEF HNext, hvars
<1>3. IInv /\ OrderInv /\ [HNext]_hvars => OrderInv'
  BY OrderStep
<1>4. IInv /\ OrderInv /\ [HNext]_hvars =>
          [\A p, q \in Ts : Overtakes(p, q) /\ p_stat[p] = "SRUN" =>
               p_pri[q] > p_pri[p] \/ p \notin sload]_hvars
  <2> SUFFICES ASSUME IInv, OrderInv, HNext, NEW p \in Ts, NEW q \in Ts,
                      Overtakes(p, q), p_stat[p] = "SRUN", p \in sload
               PROVE  p_pri[q] > p_pri[p]
    OBVIOUS
  <2>1. PswtchPick(q)
    BY Consts, OnlyPswtchRuns DEF HNext, Overtakes
  <2>2. Paired(p, q)
    BY DEF Overtakes, OrderInv, Paired
  <2> QED BY <2>1, <2>2, PickInOrder
<1>5. HSpec => Spec
  BY <1>1, <1>2, PTL DEF HSpec, Spec
<1>6. HSpec => []IInv
  BY <1>5, Invariance, PTL
<1> QED BY <1>1, <1>3, <1>4, <1>6, PTL DEF HSpec, SleepOrderKept
=============================================================================
