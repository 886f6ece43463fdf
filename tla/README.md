# SVR4 kernel: verification project

TLA+ models, model-checking configurations and machine-checked proofs for the
UNIX System V Release 4 kernel for the i386 kept in this repository (`src/`,
in particular `src/i386/os`, `src/i386/disp`), with the additions made to it
since (user threads and futexes in `os/thread.c`).

The kernel is about 390,000 lines of C. This project takes the part where the
rest would be lost if it were wrong and that tests reach least: who has the
processor, who sleeps and who is woken, who lives, waits and is reaped. Paths
below are relative to `src/i386` where they do not begin with `src/`.

How to run it, in this directory:

    tlc -workers 2 -config Dispatch_safe.cfg MCDispatch     # any run of PROJECT.json
    tlapm Dispatch_proofs.tla                               # any *_proofs module


## 1. The system

A process in the kernel keeps the (only) processor until it sleeps, exits or
returns to user mode with `runrun` set. What interleaves inside the kernel is
therefore (a) interrupts, wherever the interrupt level lets them in, and (b)
other processes, wherever a function may call `sleep()`, directly or through
`kmem_alloc(KM_SLEEP)`, a page fault in `copyin()`, or disk I/O. A step of a
model is what the kernel does between two such points.

| Component | State it keeps | Operations | Interacts with | Hard because | Correct when |
|---|---|---|---|---|---|
| dispatcher queues (`disp/disp.c`) | `dispq[]`: list and count per priority, `dqactmap`, `maxrunpri` | `setbackdq`, `setfrontdq`, `dispdeq`, `dq_sruninc`, `dq_srundec` | called by classes, wakeups, swapper, `/proc` | counts only loaded processes, and others change the flag | lists, counts, bitmap and maximum agree |
| process switch (`disp/disp.c`, `os/trap.c`, `ml/misc.s`) | `curproc`, `curpri`, `runrun`, `npwakecnt` | `preempt`, `pswtch`, `idle`, the test in the trap return | classes, interrupts | runs partly with interrupts on | one process runs, the best one; a better one is never without a pending preemption |
| time-sharing class (`disp/ts.c`) | `tsproc`: level, time left, wait, flags | `ts_tick`, `ts_trapret`, `ts_preempt`, `ts_sleep`, `ts_wakeup`, `ts_setrun`, `ts_update`, `ts_parmsset`, `ts_swapin`, `ts_swapout` | clock, dispatcher, `priocntl` | moves processes between queues at interrupt time | no starvation; order of wakeups kept within a priority |
| sleep queues (`os/slp.c`) | hashed lists, `p_wchan` | `sleep`, `wakeprocs`, `setrun`, `unsleep` | everyone | channels collide; the list changes as it is walked | nobody is lost or sleeps through its event |
| memory scheduler (`os/sched.c`, `os/clock.c`) | `runin`, `runout`, `SLOAD` | `sched` | dispatcher counts, clock, `setrun` | sleeps, is woken by flags; swaps fail | never asleep with work to do; who is out gets in |
| futexes (`os/thread.c`) | `futex_waiters`, waiter: `woken`, `timed_out` | `do_futex_wait`, `do_futex_wake`, `futex_timeout` | user memory, callouts, signals, sleep queues | wait, wake and timeout race; waiters are freed | no lost wake; no freed waiter named; what the program is promised |
| processes (`os/fork.c`, `os/exit.c`, `os/thread.c`, `vm/seg_u.c`, `os/pid.c`) | proc table, parent/child and next-of-kin/orphan lists, `p_flag`, `p_wcode`, `p_as` | `newproc`, `vfwait`, `exit`, `exit_threads`, `waitid`, `freeproc`, `relvm`, `segu_release` | signals, VM, semaphores | several sleep in the middle, structures are reused | lists sound, address spaces freed by the last, every wait ends |
| signals, job control, ptrace (`os/sig.c`) | `p_sig`, `p_cursig`, `p_hold`, stop state | `psignal`, `sigtoproc`, `issig`, `psig`, `stop`, `sigcld` | tty, clock, `/proc`, wait | stop, continue and kill cross | no signal lost; SIGKILL ends any process; a stop is reported |
| callouts (`os/clock.c`) | heap of timed calls | `timeout`, `untimeout`, `timein` | drivers, futexes | bounded, called at interrupt time | each fires once, in order, unless cancelled |
| semaphores (`os/sem.c`, `os/ipc.c`) | sets, waiting counts, undo lists | `semop`, `semctl`, `semget`, `semexit` | fork, exit | a `semop` sleeps and starts again, sets go away | all or nothing; waiters woken; undo exact |
| record locks (`os/flock.c`) | list of records per inode, `sleeplcks`, `reccnt` | `reclock`, `chklock`, `cleanlocks` | fcntl, file systems, exit | records are split, merged and freed under their sleepers; one chain is followed to find deadlocks | every byte has the lock asked for; sleepers are barred and will be woken; no circle |
| messages, shared memory, buffer cache | tables with sleepers | | | the same kind | not modelled, see section 8 |
| `/proc` (`fs/proc`) | `prpidlock`, `SPROCIO` | `prlock`, `prunlock`, requests | dispatcher counts, sleep | interlock with sleepers | no process runs while it is examined; no deadlock |
| STREAMS, file systems, network, VM, drivers, boot | | | | | not modelled, see section 8 |

`PROJECT.json` lists the components with their files and status, and under
`hazards` each thing that is hard to test here, at its line, with the properties
that would catch it or the reason why none does yet.


## 2. Plan

The order is by how much depends on a component.

1. **Dispatcher, sleep queues, swapper** (done): `DispQueue` (pure), `Dispatch`
   (composes the queues with switch, class, sleep, wakeup, memory scheduler and
   clock), `DispatchOrder` (history variable). Proofs of the safety
   invariants of `Dispatch`, of `HighestFirst` and of `SleepOrderKept`.
2. **Futexes** (done): `Futex`, abstract `FutexPromise`, refinement in
   `FutexRefines`, proofs of the invariants and of the refinement.
3. **Processes** (done): `Process`; proofs of all its invariants.
4. **Semaphores** (done): `Sem`. `semop()` as a function over its operations,
   with what `semundo()` takes back; sleeps, signals, page faults, exits; proofs
   of its invariants, of the exact rollback and of what exit takes back.
5. **Record locks** (done): `Flock` and the abstract `FlockMap` it refines; proofs
   of its invariants, of the refinement, and that no circle of waiting processes forms.
6. **Signals**: pending, held and current signal, stop and continue, ptrace;
   composed with the wait of `Process`. Open.
7. **Callouts**: the heap against a set of timed calls, `lbolt` modulo a small
   width, a full table; `Futex` over it. Open.
8. **`/proc` lock** in `Dispatch` (`SPROCIO` as a third cause of uncounting),
   buffer cache, STREAMS queues. Open.

The runs are few, each for its own question. A disagreement whose hazard a
passing run covers under a stated restriction (`Plain`, `RemoveRaces`) has no run
of its own; section 7 says how to see it.


## 3. Modules

| Module | Kind | Models |
|---|---|---|
| `DispQueue` | operators | one record `dq` = lists, counts, bitmap, maximum; `setbackdq`, `setfrontdq`, `dispdeq`, `dq_sruninc`, `dq_srundec`, and pswtch()'s choice |
| `Dispatch` | state machine | processor, sleep queues, time-sharing class, memory scheduler, clock |
| `DispatchOrder` | state machine | `Dispatch` with the history of who slept before whom |
| `MCDispatch`, `MCDispatchOrder` | instances | tables of a small time-sharing class |
| `Futex` | state machine | the futex calls with what they use of sleep, timeouts, signals |
| `FutexPromise` | abstract specification | compare-and-block as one step |
| `FutexRefines` | refinement | `Futex` implements `FutexPromise` |
| `MCFutex` | instances | |
| `Process` | state machine | fork, vfork, threads, exec, exit, wait, reap |
| `MCProcess` | instances, symmetry | |
| `Process_proofs` | proofs | |
| `Sem` | state machine | semget, semctl, semop, semexit |
| `MCSem` | instances, symmetry | |
| `Sem_proofs` | proofs | |
| `FlockMap` | abstract specification | which process has which lock on which byte |
| `Flock` | state machine, refinement | the lists of records, their sleepers, the deadlock check |
| `MCFlock` | instances, symmetry | |
| `Flock_proofs` | proofs | |
| `DispQueue_proofs`, `Dispatch_proofs`, `Futex_proofs` | proofs | |
| `SeqLemmas`, `IndLemmas` | proofs | sequences as queues; induction over numbers and finite sets, sums |

A definition `X_something` before a definition `X` is a seeded fault: `X` as a
plausible mistake would have it. `PROJECT.json` pairs each checked property with
one ("mutants"); with the fault in place of `X`, TLC finds the property violated.
`map` gives the source lines of each definition.

### Dispatch

`p_stat`, `p_pri`, `p_wchan`, `curproc`, `curpri`, `runrun`, `npwakecnt`,
`runin`, `runout` and the `tsproc` fields have the source's names. `sload` is the
set with `SLOAD`, `tskpri` and `tsbackq` those with the class flags. `cpu` says
where the processor is: in a process (`run`, or `runhi` at splhi), between
`CL_PREEMPT` and the splhi of `pswtch()` (`preempt`, `swtchlo`), at splhi in
`pswtch()` (`swtch`), or `idle`. `isr` is a loop at splhi, `wakeprocs()` or
`ts_update()`, one iteration a step; nothing else happens until it ends, which is
what splhi means, and the properties that speak of a finished loop say so.

A process is a program in user mode or in a system call, which may wait for an
event in the form all of the kernel uses (`while (!done) sleep(...)`), post one,
change a priority by `priocntl`, or exit. Interrupts are device completions, the
tick, `ts_update()` and the one-second part of `clock()`; they are let in exactly
where the code runs at spl0. The memory scheduler is a system process with its
own place in `sched()`; `freemem` is a choice (`MemLow`) each time it is read,
and a swap is a wait for the swap device that may fail. With nobody to load and memory
low, `sched()` jumps over the statement that clears `justloaded` (`os/sched.c:89`, 98) and
nominates with what an earlier turn left there, or, before there was one, with what was
on the stack: `Garbage` is what that may be, any process or none.

Not in it: signals and stops, `/proc`'s `SPROCIO`, creation of processes, the
real-time class (`kprunrun`), locks held over swapping other than in `biowait()`,
`runqueues()` in the idle loop, the 80386 errata path, VPIX, the limits of
`ts_upri` (any value of the range is asked for).

### Futex

A thread's place goes from user mode through the allocation of its waiter (where
others may run), compare-and-link, the test of the loop, `sleep()` and back.
`kern` is the thread in the kernel that is not asleep: only timeouts and signals,
which come at interrupt level, act while it is set. A user program stores to a
word and then wakes its waiters; in between it `owes` the wake. `callout[t]`
counts pending calls for the waiter of `t` so that a second one is a type error.

`FutexPromise` has the user's words and the set of blocked threads with the word
and the value each waits for: a thread blocks only in a state where the word has
that value, a blocked thread does nothing, and it leaves by a wake of its word by
another thread of its address space, or by its timeout. `KeepsPromise` is more than the
refinement: `AsCalled` says which operation of the promise each step has to be. What
thread `t` does with address `a` is matched with `t`'s and `a`'s own operation, so that
its wake of all releases every thread that is blocked on the word of its own space, its
wake of one releases one of these (or none, where there is none or the wake has found a
waiter whose timeout had run, `Late`), and nothing else blocks or releases anyone.

### Process

An element of `Proc` is a proc structure, free or in use. A pointer to one keeps
its value when it is freed, and `pid_assign()` may give the structure to another
process: dangling pointers are represented. The child and orphan lists are sets,
as order in them matters to nothing modelled. A step is what a process does
between two places where it may sleep (`pc`): in `procdup()` where the child's
u-block is allocated, `vfwait()`, `relvm()`, `exit_threads()`, the last part of
`exit()`, `waitid()`, `futex_wait()`. Of that a thread sleeps on its own waiter at a
priority where no signal reaches it, and comes back when somebody else ends the wait.

`SIGKILL` is the one signal that ends a process; `ptrace(0)` starts tracing, and a traced process
stops when it takes some other signal: on its way to user mode, or inside the
`sleep()` of `waitid()`. `issig()` is called there before the processor is given away, and
then the process stops with its `p_wchan` still set, as it is on the sleep queue, and
again after a signal has taken it off. A traced child of process 1 exits instead.

Not in it: `WNOHANG`, `WNOWAIT`, `WCONTINUED`, process groups and sessions, other
signals, what the tracer asks for (a stopped process goes on only by `SIGKILL`),
`/proc`, the sleeps of `kmem_alloc(KM_SLEEP)` in `sigaddq()` and of the vnode
releases in `exit()`.

`Plain` says that threads create nothing and that a process with threads does
not exec. The code does not enforce this and goes wrong without it (section 7);
the passing runs assume it and say what holds of programs that keep to it.


### Sem

`sema`, `sem` and `semmap` are the tables; a semaphore set is its index, and an
identifier a number that holds the index and the sequence number, as in the code. The
sequence number goes back to 0 where the identifier would pass `INT16_MAX`, so an old
identifier may name a later set. `semmap` is the set of free semaphores, and its
maximal runs (`Starts`) are the entries of the array: when a set that is removed needs an entry of
its own and there is none, `rmfree()` reports its semaphores and drops them (`lost`).
`undo[p]` is the list of adjustments of the process, by identifier and number.
`Perform` is the loop of `semop()` over its list, `semundo` takes back the first
operations of it, and `Pass` is one pass: it ends in an error, in success with the
wakeups, or in `sleep()` with the count of waiters raised. A step goes to the next
place where others may run: `sleep()` or a page fault in `copyin()`, which is
possible for the lists in `Faults`. After its sleep a process finds its set gone,
a signal, or makes another pass, for which it may fault again.

`RemoveRaces` says whether a set may be removed while a call on it is in `copyin()`,
or when its next identifier is one that a call still in progress has from the last
time it was given out; the code goes wrong then (section 7) and the run forbids
both. `Thread` are the processes that exit by `thread_exit_current()`, which does
not call `semexit()`.

Not in it: permissions, the calls that only report, and that the buffer of all
calls, `semtmp`, is one: each call has its own list.

### Flock

`v_filocks[f]` is the list of records of a file, `blk` the owner that the record
of a waiting process in `sleeplcks` names, `p_wchan` the record it is asleep on,
or none when it has been woken and has not run: its record is still there then,
and `deadflck()` still follows it. `flckadj()` is a walk over the list with a
record of its work: place, lock as grown, `insrtp`, records still to be had. Every
case of its switch on the ten regions is there with its fall-through. `deadflck`
says of the chain that `b` is followed by that it comes to `p`: all sets that hold
`b` and are closed under the chain hold `p`. The loop of the code finds just that
when it ends, and `NoDeadlock` says that it ends.

`FlockMap` has for each byte and process none, a read or a write lock. A call names a
process, a file, a type and a range: where no lock of others is in the way it gives just these
bytes this lock, and else changes nothing; one that fails with ENOLCK may have
unlocked the first of these bytes. `Implements` is the refinement and `AsAsked`: each
`reclock()`, unlock and `cleanlocks()` is the call of the map with its own request, and a
process that has slept is matched with the request it went to sleep with.


## 4. Runs

All passing runs are exhaustive.

| Run | Instance | Shows |
|---|---|---|
| `disp_safe` | two time-sharing processes and the scheduler, two user levels, upri in {-1, 0}, one process may exit, memory low or not, swaps may fail, sleeps that allow swapping, preemptive and non-preemptive wakeups, any `Garbage`; 5.1M states | `TypeOK`; `DispqSound`, `CountsAgree`: queues, counts, bitmap and flags agree through every interleaving of interrupts with `preempt()`, `pswtch()` and `sched()`; `CurprocSound`: one process runs, loaded, with its priority in `curpri`; `SwapperArmed`, `NomineeNotForgotten`: the scheduler's sleep is always going to be ended; `PreemptionPending`; `HighestFirst` |
| `disp_order` | three processes, the scheduler and two queues, on one of which different channels collide; two sleep priorities; 2.4M states | `SleepqSound`, `NoLostWakeup`: no sleeper lost or left; `SleepOrderKept`: what there is of first-come order |
| `disp_live` | two processes, one channel; 34,000 states | `EventuallyRuns`, `SleepersWake` under the fairness below |
| `disp_load` | one process, swapping, `justloaded` unassigned at first; 15,000 states | `EventuallyLoaded` |
| `futex_safe` | two threads of one address space and one of another that uses the same address, two values; 1.3M states | `TypeOK`, `ListSound`, `CalloutSound`, `NoLostWake`; `KeepsPromise`: the comparison and the decision to block are one step, and a wake stays in the space of its caller |
| `futex_live` | three threads of one address space, one value that does not change, so that two wait and the third wakes; 0.13M states | `KeepsPromise` with several waiters: a wake of all releases each of them, a wake of one releases one; `WokenReturns` |
| `proc_tree` | four structures, fork, vfork, thread_create, exec, kill, exit, wait; symmetric; 0.28M states | `TreeSound`, `SpacesSound`, `VforkHeld` |
| `proc_live` | three structures, and ptrace, SA_NOCLDWAIT and futex_wait; 0.14M states | `TypeOK`, `NoLostWait`; `ExitEnds`: the exit of a process with threads ends unless one of them is in `futex_wait()` for ever; `VforkEnds` |
| `sem_safe` | two processes, and callers outside of them; two sets of up to two of three semaphores, one entry for free runs, identifiers that come round after 2; five lists that give, wait for zero and take, move from one to the other, take and wait for zero, give and take without waiting, with and without SEM_UNDO; one structure of adjustments with two entries; symmetric; 1.3M states | `TypeOK`; `SetsSound`: sets stay apart and every semaphore is accounted for; `SleepersCounted`: no sleeper is on a removed set or without a count; `NoIdleSleeper`: none could go on; `UndoSound`, `AllOrNothing`, `ExitUndoes` |
| `flock_safe` | three processes, two bytes, six records; symmetric; 0.28M states | `TypeOK`; `SleepersBarred`; `NoDeadlock`, with room for a circle of three |
| `flock_map` | two processes, every range of three bytes, three records; symmetric; 24,000 states | `ListSound`; `Implements`: each call gives its own bytes its own lock, and changes no others |
| `futex_late` | two threads | a violation, section 7 |

Why the bounds are enough. *Dispatch*: the queue code treats each priority alone, so
what matters is two queues, a queue of more than one, one that empties, and an
unloaded process ahead of a loaded one; two processes with five priorities give
these, three add a waiter that overtakes. Two user levels are enough for every
branch of the class: expiry moves down, sleep return and `ts_update()` move up, and
the clamp of `umdpri` bites with upri -1. `Quantum` is 1 in `disp_safe`, where
expiry at every tick is the case of interest, and 1 or 2 elsewhere. `MaxWait` is 0,
which boosts a runnable process at every `ts_update()`: the most frequent
re-queueing. `sqhash` makes `&runout`, `&runin` and a device channel collide.
*Futex*: the races are between a waiter, a waker and a timeout; the third thread
makes a second waiter on the list, behind or before the first. *Process*: process 1,
a parent, a child, a grandchild; reuse of a structure happens because there are no
more of them. *Semaphores*: two sets make an index that is used again and two owners
of the map; three semaphores with one entry for free runs make a removal that joins
a run, one that takes the entry and one that finds none; values 0 and 1 with
adjustments up to 1 reach every limit, and with one structure of adjustments with
fewer entries than there are semaphores ENOSPC, EINVAL and ERANGE happen, and a
transfer with SEM_UNDO succeeds; with `INT16_MAX` 2 an identifier is out of date
after one removal and comes round after the next. *Record locks*: three bytes are
what a split in the middle needs, and make every region of `regflck()` reachable;
three records are fewer than the splits and the sleeper ask for, so that ENOLCK
comes at each of its places. A circle of three needs three owners, three records and
three sleepers, and two bytes are enough for it. Refinements have a run where the
question they ask can be answered wrong: `futex_safe` two spaces with one address
and words that change, `futex_live` two waiters at a time, `flock_map` every range.

Deadlock is checked except in `proc_live`, where a system in which every process
waits for a child that computes for ever, or in which all have stopped, is one
that the programs chose; the liveness properties still say what must not hang.

Fairness. `Dispatch`: a loop at splhi goes on (WF). Interrupts may come at every
point but not so densely that the interrupted code never runs: strong fairness of
the code that has the processor, of returning to user mode, of devices and of the
tick. One assumption is not justified by the code alone, and `EventuallyRuns`
needs it: that `ts_update()`, which runs once a second, does not for ever hit the
few instructions between `CL_PREEMPT` and splhi; there it would put the process
boosted at the back again. With memory pressure: the swap device answers, the
clock calls, and `swapinub()` does not fail for ever. `EventuallyRuns` is stated
for two processes: with three, two that always wait for I/O share the processor at
kernel priorities and can keep the third out, in the code as in the model. `Futex`: a thread
in the kernel goes on (SF, as others hold the processor in between), the clock
comes to each callout; nothing is assumed of the program. `Process`: a process in
the kernel goes on, a killed one takes the signal when it returns to user mode;
nothing is assumed of who should end a `futex_wait()`, which is why `ExitEnds` names it.


## 5. Proofs

TLAPS checks all theorems for arbitrary constants satisfying the named
assumptions `MaxPriAssumption`, `DispatchAssumption`, `FutexAssumption`,
`ProcessAssumption`, `SemAssumption` and `FlockAssumption`, which TLC also
evaluates on every run: any finite set of processes, any number of priorities and
sleep queues, any hash, any time-sharing tables; any threads, address spaces, words
and values; any proc structures; any tables and limits of `seminfo` and any lists
of operations; any finite sets of files, any bytes and any number of records.

**Dispatch.** `Dispatch_proofs` proves `Spec => []IInv` with

    IInv == TypeOK /\ QueueInv /\ CpuInv /\ SleepInv /\ SchedInv /\ EventInv /\ NomineeInv

None of the checked invariants is inductive alone. `QueueInv` needs `CpuInv`, as
who is linked depends on where in `preempt()`/`pswtch()` the processor is;
`CountsAgree` needs `QueueInv`, as `dq_srundec()` is right only for a process
that is linked where its `p_pri` says, and `SchedInv`, which fixes when the
nominee of `sched()` is loaded; `NoLostWakeup` needs that the `done` flag is
tested and `sleep()` called without an interrupt in between (`EventInv`);
`NomineeNotForgotten` needs that `setrun()` of an unloaded process clears
`runout` within the same splhi loop (`NomineeInv`). `DispQueue_proofs` has, for
each queue operator, that it keeps a sound queue sound and whom it links;
`SeqLemmas` what removal and insertion do to a sequence without repetition. One
lemma per action, one step per conjunct it can disturb. Corollaries: the
theorems named in `PROJECT.json` for the invariants `disp_safe` and `disp_order`
check, and `PriorityOrder` for the action property `HighestFirst`.

`PreemptionKept` needs two invariants more. `PendInv` says it of `curproc` at splhi
and inside the loop of `wakeprocs()` too: nothing schedulable that is runnable has
a priority above `curpri`, unless `runrun` or `npwakecnt` is set; only
`ts_update()` is exempt, which sets `runrun` at its end. `RankInv` says that no
time-sharing process is above `proc_sched` while that runs, as `sched()` loads a
process without a look at `runrun`. That depends on the tables, so the theorem
assumes `SysPriAbove`: `proc_sched` waits at no lower priority than a time-sharing
process can have. It is true of the tables as configured (`ts_kmdpris` of
`master.d/ts/space.c` and the `v_maxsyspri` from which `disp/sysclass.c:162`
counts down) and in the instances; with a `v_maxsyspri` configured below the sleep
priorities of a time-sharing process, one that is loaded could wait until
`proc_sched` sleeps or the next `ts_update()`.

`SleepersRunInOrder` is about `DispatchOrder`, whose variable `ahead` is a history of
who slept before whom. `OrderInv`, on top of `IInv`, says where such a pair can be: both
asleep, the first in front on their sleep queue; between the two steps of the
`wakeprocs()` in progress; or both runnable and, if they have one priority, the first
in front on its queue. It also needs that both have `TSKPRI`. That is why the order
lasts from the wakeup to the processor: `ts_tick()`, `ts_update()` and `ts_parmsset()`
pass over a process with that flag, and only these would move it to another queue
or to the back of its own. The rest is that no operation on a queue changes the order of two
processes other than the one it moves (`AppendOrder`, `PrependOrder`, `RemoveOrder` of
`SeqLemmas`; `LinkOrder`, `UnlinkOrder`, `RequeueOrder`). `UntouchedKeeps` gathers what
the steps that do not concern a pair leave alone; `WakeOne` is the one that does.

**Futex.** `IInv == TypeOK /\ KernInv /\ WaiterInv /\ CalloutInv /\ ListInv /\
NoLostWake` is inductive: `KernInv` says at which places a thread holds the
kernel, `WaiterInv` which flags a waiter can have there, `CalloutInv` that a
pending callout means a timed waiter not yet timed out, `ListInv` that list and
places agree. `Implements` shows that initial states map to initial states and
each step to a step of `FutexPromise` or none: the link is `Block`, the mark in
`do_futex_wake()` is `WakeAll`/`WakeOne`, `futex_timeout()` is `Expire`; and that each is the
one its caller asked for (`AsCalled`). For a wake that is a computation of the set that
is marked: the waiters on the caller's word in the caller's space that are not marked
and have not timed out, all of them or the first on the list.

**Processes.** `Process_proofs` proves, under `Plain`, `Spec => []IInv` with

    IInv == TypeOK /\ Linked /\ Placed /\ FirstPlaced
              /\ Duplicating /\ Lent /\ Housed /\ Awaiting

and from it all five invariants of the runs and `FreeprocUnlinks`, which needs
`Plain` (section 7). `Linked` is `TreeSound` with what makes it inductive: a
parent has done its own start and is no thread, and neither `p_parent` nor
`p_nextofkin` runs in a circle (`Forest`: every nonempty set of processes has one
that points out of it). Without that an exit could hand its orphans to itself.
`Placed` says where a process may be, given its `p_stat`, and on which channel it
sleeps there; `Duplicating` and `Lent` tie parent and child together while one
waits in `procdup()` or `vfwait()`; `Housed` is `SpacesSound` with who has an
address space and whose; `Awaiting` is `NoLostWait`, place by place. The step that
carries the result is lemma `Alone`: when `relvm()` frees, nobody else is there.
Any other would be a thread of the process, and those are gone, or a vfork child,
whose parent lends and so is in the same address space and not the one that
frees; it is a vfork child in turn, and so on without end, which the absence of
circles forbids.

**Semaphores.** `Sem_proofs` proves, under `~RemoveRaces`, `Spec => []IInv` with

    IInv == Tables /\ Apart /\ (\A p \in Proc : Held(p)) /\ Adjusting

`Tables` is the type invariant, with the calls in progress; `Apart` is `SetsSound`
with every set on semaphores that there are. Its last part is that the free runs
have room in their array: `rmalloc()` takes the front of a run, which moves its
start or ends it (`FrontTaken`), and `rmfree()` makes a run only where there is an
entry. `NoneLost` is the condition under which it always has one: with an entry for
each identifier no semaphore is ever lost, since before each free run but the first
there is a set that ends there (`RunsFew`). The tables as configured do not meet it
(section 7). `Held` says what a call may rely on when it goes on after a sleep:
`SleepersCounted`, the numbers that were checked before the first pass still in
range, and that an identifier which is current names a set that exists (`Named`).
Sequence numbers come round, so that needs that none does so while a call has it,
which is the other half of `~RemoveRaces`. `Adjusting` is `UndoSound` with the room
in the structure. They hold each other: a pass stays in the tables only for numbers
in range, a value only because adjustments are, and an adjustment is for an existing
set only if the pass that makes it has one, which is where `RemoveRaces` breaks it
(`OnOwnSet`, section 7).

The passes are recursive functions of the number of operations done. That they
exist, and what holds after each turn, is by induction, written as a least element
of the set of turns where it fails (lemmas `Least`, `UpTo` of `IndLemmas`), as an induction
theorem over a predicate is beyond these provers. Lemma `Rollback` runs the two
functions against each other: `n` turns back from `w.done` leave the values and
adjustments of turn `w.done - n`. From it, and from the fact that an adjustment
is dropped exactly when it comes to 0, follows one half of `SemopAtomic`: a pass that
stops at any operation, for want of a value, of room or by range, has done nothing, for
any list. The other half is about sums. `SumFunctionOnSet` of the library is a fold,
and `SumMore` (of `IndLemmas`) proves that one member more adds its number, whichever is
taken first; `RunningTotal` makes of that what a running total comes to, and `PassAdds` and
`PassAdjusts` apply it to the values and the adjustments that the turns of a pass leave.

`SleepersNotIdle` (`NoIdleSleeper`) strengthens `IInv` by `Barred` for every process:

    Barred(p) == /\ pc[p] \in {"copyin", "asleep", "woken"} => ZeroFirst(arg[p].ops)
                 /\ pc[p] = "asleep" => Stopped(p)

`Stopped` names an operation of the list on the semaphore the process sleeps on that
stops it with the value as it is now, counting what the list itself does to that
semaphore before it (`Before`, a sum as above). No step may let the operation through
without waking the sleeper: `Settles` says so of the values a step leaves and of the
channels it wakes, there is one lemma for what each of `semop()`, `semundo()`, SETVAL,
SETALL, IPC_RMID and `semexit()` does, and `StillBarred` carries `Barred` over any step that
settles. It takes the counts (`SleepersCounted`, in `IInv`), as a count that was 0 would
wake nobody. A pass that goes to sleep has found such an operation (`SleeperStopped`), and
a pass over a list that has one does not go through (`StoppedPass`), which is the property.
The theorem assumes `ZeroFirst` of the lists, that none tests a semaphore for zero after
changing it itself. The code does not promise that of its callers: it is where the
property holds and beyond which it fails (section 7).

`ExitTakesBack` is the action property `ExitUndoes`, and `NoneInherited`
says that slots that no user thread takes pass no adjustments on.

**Record locks.** `Flock_proofs` proves `Spec => []IInv` with

    IInv == TypeOK /\ (\A f \in File : Good(v_filocks[f]) /\ Excl(v_filocks[f]))
              /\ Sleepers(v_filocks, p_wchan, request, blk)
              /\ (\A p \in Waiting : request[p] \in Requests) /\ reccnt <= t_flckrec

`Good` says of a list that no record is empty, the starts ascend, and two records of
one owner are apart, and farther apart when of one type; `Excl`, that a byte two
processes have locked is one they read; `Sleepers`, that whoever sleeps does so on a
record of the list that is marked and bars its request. `ListsSound` and
`SleepersStayBarred` are read off it.

What has to be shown is that `flckadj()` keeps it, and that is about a loop. Its
invariant `WalkInv` holds before every turn: the records of the caller that have been
passed end before the lock (`Passed`), the lock has grown only over bytes the caller
had that way (`Grown`), the others have what they had (`Others`), the caller has lost
only bytes of the lock that have been passed (`Bytes`), the sleepers of every record
that is gone are to be woken (`Wakes`), records are as many as `room` says (`Room`),
`insrtp` is a place behind which the lock can go (`Point`), and a walk that ended early
found the lock there or took away bytes that lie together (`Ended`). `AdjustCases`
brings the switch to fourteen cases in numbers; most change the list in one way, some
pieces for the record they came from (`Rework`, `Changed`), and one lemma each shows
that the case keeps `WalkInv` and gets nearer to the end of the list (`Nearer`), as a
turn may delete the record it is at and put in another. `WalkKeeps` takes that over all
turns by induction, with lemma `UpTo`; `LockIn` puts the lock in, and `Done` is what
`FlckadjDoes` says of the whole: the caller has just what it asked for, on just those
bytes, or the call failed and it lost bytes that lie together. The walk needs no more of
the list it begins with than `Good`, and that nothing bars the request comes in only
for `Excl`.

`KeepsPromise` is the refinement of `FlockMap`, by the mapping in `Flock`: initial
states map to initial states, and a step of the lists to a `Set`, to a `Fail`, or to no
step (`NextMaps`), and each to the one it was called for (`AsAsked`). That a call sets
exactly its bytes is `FlckadjDoes`; that it sets them exactly when the map says they are
free goes over `blocked()`: it looks at the records in order and stops early, and finds
a blocker just if some byte of the request is locked by another in a way that excludes it.
A call that fails may have taken away bytes of its own request only, although the lock grows as the
walk goes on: growing deletes a record, so that there is one to spare (`Lean`), and a lock
inside an own record of another type, the one case that takes two, has not grown (`NotGrown`).

`DeadlockFree` needs nothing of the lists: no circle of processes ever waits. What
makes it inductive is that the record of a process that has been woken and not yet run
counts as waiting. A request adds one edge, from `p` to the owner `b` of the first
lock in its way; `deadflck()` said no, so there is a set that holds `b`, is closed
under the chain and leaves out `p`; a new circle would go through `p` and `b`, and
what of it lies in that set would be a circle before.

**Model-checked only.** All liveness, which is beyond the prover. Every invariant and
action property a passing run checks is stated by a theorem.


## 6. What the checks show

The dispatcher is right in a delicate way. The window of `preempt()` in which a
process is linked and still `SONPROC` is harmless only because `ts_tick()` and
`ts_update()` go by what `dispdeq()` found and not by `p_stat`; the counts survive swapping
only because `sched()` changes `SLOAD` and the count at one splhi. The seeded
faults are the evidence that these are not true by construction: a re-queue that
reads the new priority, a count left behind, or a flag not cleared each break a
property within a few steps.

The futex code loses no wake, frees no waiter that anything still names, and wakes in the
caller's address space only. What it does not do is honour timeouts and signals always.

Fork, exit and wait keep the process tree and address spaces sound for programs
whose threads create nothing, for any number of processes. The exit of a process with threads ends
unless a thread of it stays in `futex_wait()`, which `SIGKILL` does not end: then it never does.

`semop()` is atomic, and takes back whatever list it cannot finish; its counts,
which are cleared before the sleepers run, never leave one behind; adjustments name
only sets that exist. No semaphore is in two sets or goes astray unless `rmfree()`
says so. Record locks give each call the bytes and the lock it asked for, and
nothing else, whatever is split or merged. Following the first lock in the way only
is enough against deadlock: a process is asleep on one lock at a time, and checks
again for the next. The price is an EDEADLK that need not be: the record of a
sleeper that has been woken still counts.


## 7. Disagreements found

Shown by a run (`PROJECT.json`, findings):

- `futex_late`: the loop of `do_futex_wait()` tests and sleeps at spl0; a timeout
  in between is lost and the thread sleeps on (`os/thread.c:202`).

Properties that are stated in the modules, and that TLC finds violated without
the restriction that the passing runs make:

- `FreeprocUnlinks` (`Process`, `Plain = FALSE`, four structures, `Kinds = {{},
  {"STHREAD"}}`): a thread that made a thread exits, its structure is reused, and
  the later exit of the second breaks the assertion of `freeproc()` that it is on
  its parent's list (`vm/seg_u.c:880`, `os/exit.c:595`). With `Plain` it is
  theorem `FreedAreListed`.
- `TrapReported` (`Process` under `FairSpec`, `Calls = {"ptrace", "kill"}`): a
  parent in `waitid(P_PID)` sleeps on its child, and `stop()` of a traced child
  wakes the parent's own channel only (`os/sig.c:381`).
- `OnOwnSet` (`Sem`, `RemoveRaces = TRUE`): `semop()` keeps `sp` over `copyin()`
  (`os/sem.c:633`, 659); a set that is removed and made anew in between is
  operated on, and a process sleeps on a semaphore of the new set.
- `NoIdleSleeper` (`Sem`, with the list take one, wait for zero on one
  semaphore): the wait is for the value after the decrement, and `semzcnt` is
  woken only when the value itself is zero, so the process is not retried when it
  could be done (`os/sem.c:721`). The lists of `sem_safe` test a semaphore for
  zero before they change it; for such lists it is theorem `SleepersNotIdle`.
- `UndoGone` (`Sem`, `Thread` not empty): a user thread leaves before
  `semexit()` (`os/exit.c:162`), and its adjustments pass to the next process that
  gets the structure. With `Thread` empty it is theorem `NoneInherited`.

Noted while modelling, and represented in the models as the code has it, but with
no run of their own:

- `os/thread.c:210`: `PZERO | PCATCH` is not interruptible for `sleep()`
  (`os/slp.c:125`), so a signal never ends a futex wait and the EINTR branch is
  dead. `exit_threads()` (`os/exit.c:86`) posts `SIGKILL` to such a thread and waits for it
  until somebody wakes it, or for ever. `ExitEnds` says so: without its last
  disjunct it is violated with `"futex"` in `Calls`.
- `os/sem.c:311`: identifiers come round, as `seq` starts again at 0. A process that
  slept through that goes on with the later set, against which the numbers of its list
  are not checked (`os/sem.c:642` is before the loop): it may operate beyond the set.
  With `RemoveRaces` the model has this, where TLC stops when a number is beyond the table.
- `os/malloc.c:136`: with `SEMMAP` and `SEMMNI` both 10, as in `master.d/mtune`, the map
  has 8 entries, and sets removed so that nine holes are left lose semaphores
  until the system is booted again. `SetsSound` says of `rmfree()` what holds;
  `NoneLost` has the condition under which nothing is lost, `SEMMAP` at least 2 more than `SEMMNI`.
- `os/sched.c:89`: `sched()` goes to `unload` past the statement that clears `justloaded`
  and passes `ts_swapout()` what is left of an earlier turn, or was never assigned. One
  process may be passed over for a turn; nothing the runs check depends on it.
- `os/thread.c:273`: a wake may count a waiter that has timed out already, and
  then another that could have been woken stays blocked; `FutexPromise!WakeOne`
  is not obliged to release one.
- `disp/ts.c:899`: the runnable process swapped out is the first of the list, not
  the one of lowest priority as the comment at 865 says.
- `os/slp.c:45`: the first to sleep is the first to run only within a priority;
  `SleepOrderKept` states what holds.
- `os/exit.c:82`: `exit_threads()` does not see threads that threads made; the
  address space is then freed under them. This and `FreeprocUnlinks` are why the
  passing runs assume `Plain`.
- `os/fork.c:369`: a failed fork calls `pexit()` and with it `semexit()` for the
  parent, whose adjustments are applied while it goes on.
- `os/flock.c:325`: when the record for the lock itself is refused, the split
  has been made: a failed call to change a lock in the middle of another, or at
  its end, leaves those bytes unlocked. `FlockMap!Fail` permits it, for bytes of the request.
- `os/exit.c:351`: `sigcld()` may sleep for memory after the parent was woken,
  so that it frees a process that is not a zombie.


## 8. What is not modelled

STREAMS, file systems, the network, RPC, virtual memory, drivers, boot, the
debugger and the build are listed in `PROJECT.json` with a reason each: they are
data transformation, hardware access or systems of their own many times the size
of what is here. Within the modelled parts, section 3 says what each module
leaves out. User memory, I/O data and the contents of a u-block are abstracted to
what the properties tell apart; sizes, times and wordings are not represented.
