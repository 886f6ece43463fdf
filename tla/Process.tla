------------------------------ MODULE Process ------------------------------
(***************************************************************************)
(* The life of a process: newproc() of os/fork.c for fork, vfork and       *)
(* thread_create, exit() and waitid() of os/exit.c, thread_exit of         *)
(* os/thread.c, the release of a dead one's u-block and proc structure in  *)
(* vm/seg_u.c, and the SIGCLD, SIGKILL and ptrace parts of os/sig.c that   *)
(* take a process from one state to another.                               *)
(*                                                                         *)
(* The kernel is not preempted, so a step is what a process does between   *)
(* two places where it may sleep.  An element of Proc is a proc structure, *)
(* free or in use: pointers to it keep their value when it is freed, and   *)
(* pid_assign() may give it to another process.                            *)
(***************************************************************************)
EXTENDS FiniteSets

CONSTANTS
  Proc,         \* proc structures
  proc_init,    \* the one of process 1
  Spare,        \* names of address spaces, besides those of Proc
  None,         \* NULL
  Kinds,        \* what the programs ask newproc() for: {} is fork
  Calls,        \* the other calls that they make
  Plain         \* BOOLEAN: threads create nothing, a process with threads does not exec

P_ALL == "P_ALL"            \* waitid() for any child
WAITER == "waiter"          \* what a thread sleeps on in futex_wait(): its own waiter

ASSUME ProcessAssumption ==
  /\ proc_init \in Proc
  /\ None \notin Proc \cup Spare \cup {"exited", "trapped", P_ALL, WAITER}
  /\ P_ALL \notin Proc /\ WAITER \notin Proc
  /\ Kinds \subseteq {{}, {"SVFORK"}, {"STHREAD"}}
  /\ Calls \subseteq {"exec", "sigaction", "ptrace", "kill", "futex"}
  /\ Plain \in BOOLEAN

\* An address space is named after the process it was made for, or is a spare.
Space == Proc \cup Spare

VARIABLES
  stat,         \* p_stat, "none" for a structure not in use
  pc,           \* where the process is
  chan,         \* p_wchan
  flag,         \* p_flag
  killed,       \* the processes with SIGKILL in p_sig or SPTRX in p_flag: both must exit
  wcode,        \* p_wcode
  parent, child,        \* p_parent, and the p_child/p_sibling list of each
  nextofkin, orphan,    \* p_nextofkin, and the p_orphan/p_nextorph list
  arg,          \* the child newproc() makes or vfwait() waits for, or waitid()'s id
  space,        \* p_as
  spaces        \* the address spaces that exist

tree == <<parent, child, nextofkin, orphan>>
mem == <<space, spaces>>
vars == <<stat, pc, chan, flag, killed, wcode, tree, arg, mem>>

Init ==
  /\ stat = [p \in Proc |-> IF p = proc_init THEN "SRUN" ELSE "none"]
  /\ pc = [p \in Proc |-> "user"]
  /\ chan = [p \in Proc |-> None]
  /\ flag = [p \in Proc |-> {}]
  /\ killed = {}
  /\ wcode = [p \in Proc |-> None]
  /\ parent = [p \in Proc |-> None]
  /\ child = [p \in Proc |-> {}]
  /\ nextofkin = [p \in Proc |-> None]
  /\ orphan = [p \in Proc |-> {}]
  /\ arg = [p \in Proc |-> None]
  /\ space = [p \in Proc |-> IF p = proc_init THEN p ELSE None]
  /\ spaces = {proc_init}

-----------------------------------------------------------------------------
(* Helpers.                                                                *)

Is(p, f) == f \in flag[p]

\* A process at p's place in the kernel may be the one that runs.
At(p, where) == stat[p] = "SRUN" /\ pc[p] = where

\* In user mode, or about to return there with no signal to take first.
InUser(p) == At(p, "user") /\ p \notin killed

Threads(p) == {q \in child[p] : Is(q, "STHREAD")}

\* Those on the sleep queues of the channels C, asleep or stopped.
Asleep(C) == {q \in Proc : chan[q] \in C}

\* wakeprocs() for those in W and setrun() for those in K, after the other
\* changes st to p_stat: a stopped one that is woken only leaves its sleep queue.
Running(W, K) == K \cup {q \in W : stat[q] = "SSLEEP"}

SetRun_wchan(st, W, K) ==
  /\ stat' = [q \in Proc |-> IF q \in Running(W, K) THEN "SRUN" ELSE st[q]]
  /\ UNCHANGED chan

SetRun(st, W, K) ==
  /\ stat' = [q \in Proc |-> IF q \in Running(W, K) THEN "SRUN" ELSE st[q]]
  /\ chan' = [q \in Proc |-> IF q \in W \cup K THEN None ELSE chan[q]]

\* setrun(): wait() will not see a process that was stopped until it stops again.
Restarted(K) == [q \in Proc |-> IF q \in K /\ stat[q] = "SSTOP" THEN None ELSE wcode[q]]

sleep(p, c) ==
  /\ stat' = [stat EXCEPT ![p] = "SSLEEP"]
  /\ chan' = [chan EXCEPT ![p] = c]

\* exit() and thread_exit_current() ignore every signal from here on.
Ignores(q) == pc[q] \in {"exit", "relvm_exit", "exit_last", "sigaddq", "thread_exit"}

\* psignal(q, SIGKILL): those it is posted to, and those it sets running.
Signalled(K) == {q \in K : ~Ignores(q) /\ stat[q] \notin {"none", "SZOMB"}}
Roused(K) == {q \in Signalled(K) :
                 stat[q] = "SSTOP" \/ (stat[q] = "SSLEEP" /\ pc[q] = "waitid")}

\* freeproc() for the processes Z: off their parents' and next of kin's lists,
\* and freed.  What a freed structure held is gone, except that a dangling
\* pointer still leads to its lists until pid_assign() gives it to another.
Clear(f, Z, v) == [q \in Proc |-> IF q \in Z THEN v ELSE f[q]]

freeproc(Z) ==
  /\ stat' = Clear(stat, Z, "none")
  /\ wcode' = Clear(wcode, Z, None)
  /\ child' = [p \in Proc |-> child[p] \ {z \in Z : parent[z] = p}]
  /\ orphan' = [p \in Proc |-> orphan[p] \ {z \in Z : nextofkin[z] = p}]
  /\ parent' = Clear(parent, Z, None)
  /\ nextofkin' = Clear(nextofkin, Z, None)

\* A new address space for p, where those in sp exist: its name is one that no
\* other process has, its own if it can be.
Unused(p, sp) == {s \in {p} \cup Spare : s \notin sp /\ \A q \in Proc \ {p} : space[q] # s}
Fresh(p, sp) == IF p \in Unused(p, sp) THEN p ELSE CHOOSE s \in Unused(p, sp) : TRUE

-----------------------------------------------------------------------------
(* newproc(): the child is linked before procdup() sleeps for memory.      *)

newproc(p, c, kind) ==
  /\ InUser(p)
  /\ stat[c] = "none"
  /\ Plain => ~Is(p, "STHREAD")
  /\ stat' = [stat EXCEPT ![c] = "SIDL"]
  /\ flag' = [flag EXCEPT ![c] = kind \cup (flag[p] \cap {"SNOWAIT"})]
  /\ parent' = [parent EXCEPT ![c] = p]
  /\ child' = [child EXCEPT ![p] = @ \cup {c}, ![c] = {}]
  /\ nextofkin' = [nextofkin EXCEPT ![c] = p]
  /\ orphan' = [orphan EXCEPT ![p] = @ \cup {c}, ![c] = {}]
  /\ wcode' = [wcode EXCEPT ![c] = None]
  /\ killed' = killed \ {c}
  /\ arg' = [arg EXCEPT ![p] = c, ![c] = None]
  /\ pc' = [pc EXCEPT ![p] = "procdup", ![c] = "user"]
  /\ UNCHANGED <<chan, mem>>

\* procdup() succeeds: the child shares the address space or has a copy of it.
Procdup(p) ==
  LET c == arg[p] IN
  /\ At(p, "procdup")
  /\ IF flag[c] \cap {"SVFORK", "STHREAD"} # {}
       THEN space' = [space EXCEPT ![c] = space[p]] /\ UNCHANGED spaces
       ELSE /\ Unused(c, spaces) # {}
            /\ space' = [space EXCEPT ![c] = Fresh(c, spaces)]
            /\ spaces' = spaces \cup {Fresh(c, spaces)}
  /\ stat' = [stat EXCEPT ![c] = "SRUN"]
  /\ pc' = [pc EXCEPT ![p] = IF Is(c, "SVFORK") THEN "vfwait" ELSE "user"]
  /\ arg' = [arg EXCEPT ![p] = IF Is(c, "SVFORK") THEN c ELSE None]
  /\ UNCHANGED <<chan, flag, killed, wcode, tree>>

\* It fails: newproc() takes the child off the lists and frees it.
ProcdupFails(p) ==
  /\ At(p, "procdup")
  /\ freeproc({arg[p]})
  /\ flag' = Clear(flag, {arg[p]}, {})
  /\ killed' = killed \ {arg[p]}
  /\ pc' = [pc EXCEPT ![p] = "user"]
  /\ arg' = [arg EXCEPT ![p] = None]
  /\ UNCHANGED <<chan, mem>>

\* The child of a vfork has left its parent's address space.
Left_always(c) == TRUE
Left(c) == ~Is(c, "SVFORK")

\* The parent of a vfork waits until it has.
vfwait(p) ==
  LET c == arg[p] IN
  /\ At(p, "vfwait")
  /\ IF ~Left(c)
       THEN sleep(p, c) /\ UNCHANGED <<pc, flag, arg>>
       ELSE /\ flag' = [flag EXCEPT ![c] = @ \cup {"SVFDONE"}]
            /\ SetRun(stat, Asleep({c}), {})
            /\ pc' = [pc EXCEPT ![p] = "user"]
            /\ arg' = [arg EXCEPT ![p] = None]
  /\ UNCHANGED <<killed, wcode, tree, mem>>

-----------------------------------------------------------------------------
(* relvm(), called by exit() and by exec.                                  *)

\* What follows relvm(): the rest of exit(), or the new image.
AfterRelvm(p, sp) ==
  IF pc[p] \in {"exit", "relvm_exit"}
    THEN /\ pc' = [pc EXCEPT ![p] = "exit_last"]
         /\ space' = [space EXCEPT ![p] = None]
         /\ spaces' = sp
    ELSE /\ Unused(p, sp) # {}
         /\ pc' = [pc EXCEPT ![p] = "user"]
         /\ space' = [space EXCEPT ![p] = Fresh(p, sp)]
         /\ spaces' = sp \cup {Fresh(p, sp)}

ExecFlags(p, f) == IF pc[p] \in {"exit", "relvm_exit"} THEN f ELSE f \ {"SNOWAIT"}

\* The address space is the parent's, who waits for the child's proc structure.
Borrowed_never(p) == FALSE
Borrowed(p) == Is(p, "SVFORK")
Lender_none(p) == {}
Lender(p) == Asleep({p})

relvm(p) ==
  IF Borrowed(p)
    THEN /\ flag' = [flag EXCEPT ![p] = @ \ {"SVFORK"}]
         /\ space' = [space EXCEPT ![p] = None]
         /\ pc' = [pc EXCEPT ![p] = IF @ = "exit" THEN "relvm_exit" ELSE "relvm_exec"]
         /\ stat' = [q \in Proc |-> IF q = p THEN "SSLEEP"
                                    ELSE IF q \in Running(Lender(p), {}) THEN "SRUN"
                                    ELSE stat[q]]
         /\ chan' = [q \in Proc |-> IF q = p THEN p
                                    ELSE IF q \in Lender(p) THEN None ELSE chan[q]]
         /\ UNCHANGED spaces
    ELSE /\ AfterRelvm(p, spaces \ {space[p]})
         /\ flag' = [flag EXCEPT ![p] = ExecFlags(p, @)]
         /\ UNCHANGED <<stat, chan>>

\* The former vfork child waits for its parent to have seen it go.
RelvmWait(p) ==
  /\ At(p, "relvm_exit") \/ At(p, "relvm_exec")
  /\ IF Is(p, "SVFDONE")
       THEN /\ AfterRelvm(p, spaces)
            /\ flag' = [flag EXCEPT ![p] = ExecFlags(p, @ \ {"SVFDONE"})]
            /\ UNCHANGED <<stat, chan>>
       ELSE sleep(p, p) /\ UNCHANGED <<pc, flag, mem>>
  /\ UNCHANGED <<killed, wcode, tree, arg>>

exec(p) ==
  /\ "exec" \in Calls
  /\ InUser(p)
  /\ Plain => ~Is(p, "STHREAD") /\ Threads(p) = {}
  /\ relvm(p)
  /\ UNCHANGED <<killed, wcode, tree, arg>>

-----------------------------------------------------------------------------
(* exit().                                                                 *)

\* The exit system call, or psig() for a process with SIGKILL.
exit(p) ==
  /\ At(p, "user")
  /\ p # proc_init
  /\ pc' = [pc EXCEPT ![p] = IF Is(p, "STHREAD") THEN "thread_exit" ELSE "exit_threads"]
  /\ killed' = IF Is(p, "STHREAD") THEN killed \ {p} ELSE killed
  /\ UNCHANGED <<stat, chan, flag, wcode, tree, arg, mem>>

\* Kill the threads and sleep until one is gone, over and over.  SIGKILL does not
\* end the sleep of one in futex_wait().
exit_threads(p) ==
  /\ At(p, "exit_threads")
  /\ IF Threads(p) # {}
       THEN /\ killed' = killed \cup Signalled(Threads(p))
            /\ stat' = [q \in Proc |-> IF q = p THEN "SSLEEP"
                                       ELSE IF q \in Roused(Threads(p)) THEN "SRUN" ELSE stat[q]]
            /\ chan' = [q \in Proc |-> IF q = p THEN p
                                       ELSE IF q \in Roused(Threads(p)) THEN None ELSE chan[q]]
            /\ wcode' = Restarted(Roused(Threads(p)))
            /\ UNCHANGED <<pc, flag>>
       ELSE /\ pc' = [pc EXCEPT ![p] = "exit"]
            /\ killed' = killed \ {p}
            /\ flag' = [flag EXCEPT ![p] = @ \ {"STRC"}]
            /\ UNCHANGED <<stat, chan, wcode>>
  /\ UNCHANGED <<tree, arg, mem>>

\* Files, semaphores and shared memory are released, then the address space.
ExitRelvm(p) ==
  /\ At(p, "exit")
  /\ relvm(p)
  /\ UNCHANGED <<killed, wcode, tree, arg>>

\* The children go to process 1, the orphans to the next of kin.
Adopted(p) == [q \in Proc |-> IF q \in child[p] THEN proc_init ELSE parent[q]]
Inherited_none(p) == nextofkin
Inherited(p) == [q \in Proc |-> IF q \in orphan[p] THEN nextofkin[p] ELSE nextofkin[q]]
Traced(p) == {q \in child[p] : Is(q, "STRC")}

\* sigcld() wakes the one that exited and its parent.
SigcldChannels_parent(p) ==
  {parent[p]} \cup
  UNION {IF wcode[q] = "exited" THEN {proc_init} ELSE {} : q \in child[p]}
SigcldChannels(p) ==
  {p, parent[p]} \cup
  UNION {IF wcode[q] = "exited" THEN {q, proc_init} ELSE {} : q \in child[p]}

\* Everything from the re-parenting on; the switch that follows releases the
\* u-block, and the proc structure too if the parent does not want it.
ExitLast(p) ==
  LET gone == IF Is(parent[p], "SNOWAIT") THEN {p} ELSE {}
      kin == nextofkin[p] IN
  /\ At(p, "exit_last")
  /\ parent' = Clear(Adopted(p), gone, None)
  /\ nextofkin' = Clear(Inherited(p), gone, None)
  /\ child' = [q \in Proc |-> (IF q = p THEN {}
                               ELSE IF q = proc_init THEN child[q] \cup child[p]
                               ELSE child[q]) \ gone]
  /\ orphan' = [q \in Proc |-> (IF q = p THEN {}
                                ELSE IF q = kin THEN orphan[q] \cup orphan[p]
                                ELSE orphan[q]) \ gone]
  /\ killed' = killed \cup Signalled(Traced(p))
  /\ wcode' = [Restarted(Roused(Traced(p))) EXCEPT ![p] = IF gone = {} THEN "exited" ELSE None]
  /\ flag' = Clear(flag, gone, {})
  /\ pc' = [pc EXCEPT ![p] = "user"]
  /\ SetRun([stat EXCEPT ![p] = IF gone = {} THEN "SZOMB" ELSE "none"],
            Asleep(SigcldChannels(p)), Roused(Traced(p)))
  /\ UNCHANGED <<arg, mem>>

\* A thread's exit releases only what is its own; segu_release() wakes p_parent
\* and frees the structure.
ReleaseChannel_own(p) == p
ReleaseChannel(p) == parent[p]

thread_exit_current(p) ==
  /\ At(p, "thread_exit")
  /\ parent' = Clear(parent, {p}, None)
  /\ nextofkin' = Clear(nextofkin, {p}, None)
  /\ child' = [child EXCEPT ![parent[p]] = @ \ {p}]
  /\ orphan' = [orphan EXCEPT ![nextofkin[p]] = @ \ {p}]
  /\ flag' = Clear(flag, {p}, {})
  /\ wcode' = Clear(wcode, {p}, None)
  /\ pc' = [pc EXCEPT ![p] = "user"]
  /\ space' = [space EXCEPT ![p] = None]
  /\ SetRun(Clear(stat, {p}, "none"), Asleep({ReleaseChannel(p)}), {})
  /\ UNCHANGED <<killed, arg, spaces>>

-----------------------------------------------------------------------------
(* waitid() with WEXITED and WTRAPPED, and what SIGCLD is set to.          *)

\* The children waitid(id) is about.
Matching(p, id) ==
  {c \in child[p] : ~Is(c, "STHREAD") /\ (id = P_ALL \/ c = id)}

WaitBegin(p, id) ==
  /\ InUser(p)
  /\ pc' = [pc EXCEPT ![p] = "waitid"]
  /\ arg' = [arg EXCEPT ![p] = id]
  /\ UNCHANGED <<stat, chan, flag, killed, wcode, tree, mem>>

WaitReturns(p) ==
  /\ pc' = [pc EXCEPT ![p] = "user"]
  /\ arg' = [arg EXCEPT ![p] = None]

\* A child that has exited is laid to rest.
WaitReaps(p) ==
  /\ At(p, "waitid")
  /\ \E c \in Matching(p, arg[p]) :
       /\ wcode[c] = "exited"
       /\ freeproc({c})
       /\ flag' = Clear(flag, {c}, {})
  /\ WaitReturns(p)
  /\ UNCHANGED <<chan, killed, mem>>

\* A traced child that has stopped is reported, once.
WaitTrapped(p) ==
  /\ At(p, "waitid")
  /\ \E c \in Matching(p, arg[p]) :
       /\ wcode[c] = "trapped"
       /\ wcode' = [wcode EXCEPT ![c] = None]
  /\ WaitReturns(p)
  /\ UNCHANGED <<stat, chan, flag, killed, tree, mem>>

\* No such child, or a signal.
WaitFails(p) ==
  /\ At(p, "waitid")
  /\ \A c \in Matching(p, arg[p]) : wcode[c] = None
  /\ Matching(p, arg[p]) = {} \/ p \in killed
  /\ WaitReturns(p)
  /\ UNCHANGED <<stat, chan, flag, killed, wcode, tree, mem>>

WaitChannel(p) == IF arg[p] = P_ALL THEN p ELSE arg[p]

NothingYet(p) ==
  /\ At(p, "waitid")
  /\ Matching(p, arg[p]) # {}
  /\ \A c \in Matching(p, arg[p]) : wcode[c] = None

WaitSleeps(p) ==
  /\ NothingYet(p)
  /\ p \notin killed
  /\ sleep(p, WaitChannel(p))
  /\ UNCHANGED <<pc, flag, killed, wcode, tree, arg, mem>>

\* sigaction(SIGCLD): with SA_NOCLDWAIT the zombies there are go at once.
setsigact(p, nowait) ==
  LET Z == {c \in child[p] : nowait /\ stat[c] = "SZOMB"} IN
  /\ "sigaction" \in Calls
  /\ InUser(p)
  /\ freeproc(Z)
  /\ flag' = [Clear(flag, Z, {}) EXCEPT ![p] =
                IF nowait THEN @ \cup {"SNOWAIT"} ELSE @ \ {"SNOWAIT"}]
  /\ UNCHANGED <<pc, chan, killed, arg, mem>>

-----------------------------------------------------------------------------
(* Signals.                                                                *)

\* kill(2) with SIGKILL, from any process.
kill(q) ==
  /\ "kill" \in Calls
  /\ q # proc_init
  /\ q \in Signalled({q}) \ killed
  /\ killed' = killed \cup {q}
  /\ wcode' = Restarted(Roused({q}))
  /\ SetRun(stat, {}, Roused({q}))
  /\ UNCHANGED <<pc, flag, tree, arg, mem>>

\* ptrace(0): the parent traces the caller, which is not process 1.
ptrace(p) ==
  /\ "ptrace" \in Calls
  /\ InUser(p)
  /\ p # proc_init
  /\ ~Is(p, "STRC")
  /\ flag' = [flag EXCEPT ![p] = @ \cup {"STRC"}]
  /\ UNCHANGED <<stat, pc, chan, killed, wcode, tree, arg, mem>>

\* stop(PR_SIGNALLED), by a process that is on the sleep queue of c or, if that is
\* None, on none.
stop(p, c) ==
  /\ wcode' = [wcode EXCEPT ![p] = "trapped"]
  /\ stat' = [q \in Proc |-> IF q = p THEN "SSTOP"
                             ELSE IF q \in Running(Asleep({parent[p]}), {}) THEN "SRUN"
                             ELSE stat[q]]
  /\ chan' = [q \in Proc |-> IF q = p THEN c
                             ELSE IF q \in Asleep({parent[p]}) THEN None ELSE chan[q]]
  /\ UNCHANGED killed

\* issig() of a traced process that has a signal: it stops, but as a child of
\* process 1 it exits.
issig(p, c) ==
  /\ Is(p, "STRC") /\ p \notin killed
  /\ IF parent[p] = proc_init
       THEN killed' = killed \cup {p} /\ SetRun(stat, {}, {p}) /\ UNCHANGED wcode
       ELSE stop(p, c)
  /\ UNCHANGED <<pc, flag, tree, arg, mem>>

\* It calls issig() on its way to user mode, and in the sleep() of waitid(): when
\* it is on its sleep queue but has not given the processor away, and, with the
\* signal having taken it off that queue, when it runs again.
TracedStop(p) ==
  \/ InUser(p) /\ issig(p, None)
  \/ NothingYet(p) /\ issig(p, WaitChannel(p))
  \/ stat[p] = "SSLEEP" /\ pc[p] = "waitid" /\ issig(p, None)

-----------------------------------------------------------------------------
(* futex_wait().                                                           *)

\* The sleep is at PZERO, so that no signal ends it.
FutexWait(p) ==
  /\ "futex" \in Calls
  /\ InUser(p)
  /\ sleep(p, WAITER)
  /\ pc' = [pc EXCEPT ![p] = "futex"]
  /\ UNCHANGED <<flag, killed, wcode, tree, arg, mem>>

\* A futex_wake() or the timeout ends it.
FutexReturns(p) ==
  /\ stat[p] = "SSLEEP" /\ pc[p] = "futex"
  /\ SetRun(stat, {p}, {})
  /\ pc' = [pc EXCEPT ![p] = "user"]
  /\ UNCHANGED <<flag, killed, wcode, tree, arg, mem>>

-----------------------------------------------------------------------------

Step(p) ==
  \/ Procdup(p) \/ ProcdupFails(p) \/ vfwait(p) \/ RelvmWait(p)
  \/ exit_threads(p) \/ ExitRelvm(p) \/ ExitLast(p)
  \/ thread_exit_current(p)
  \/ WaitReaps(p) \/ WaitTrapped(p) \/ WaitFails(p) \/ WaitSleeps(p)

Call(p) ==
  \/ \E c \in Proc, kind \in Kinds : newproc(p, c, kind)
  \/ exec(p)
  \/ \E id \in {P_ALL} \cup child[p] : WaitBegin(p, id)
  \/ \E nowait \in BOOLEAN : setsigact(p, nowait)
  \/ ptrace(p)
  \/ TracedStop(p)
  \/ FutexWait(p)

Next == \E p \in Proc : Step(p) \/ Call(p) \/ exit(p) \/ kill(p) \/ FutexReturns(p)

Spec == Init /\ [][Next]_vars

\* A process that is in the kernel gets the processor, and one that SIGKILL
\* was sent to takes it when it returns to user mode.  Nothing is assumed of who
\* should end a futex_wait().
Fairness == \A p \in Proc : WF_vars(Step(p)) /\ WF_vars(p \in killed /\ exit(p))

FairSpec == Spec /\ Fairness

-----------------------------------------------------------------------------
(* Properties.                                                             *)

Stats == {"none", "SIDL", "SRUN", "SSLEEP", "SSTOP", "SZOMB"}
Places == {"user", "procdup", "vfwait", "relvm_exit", "relvm_exec", "exit_threads",
           "exit", "exit_last", "thread_exit", "waitid", "futex"}

\* Every variable has its type, and p_wchan goes with p_stat.
TypeOK ==
  /\ stat \in [Proc -> Stats]
  /\ pc \in [Proc -> Places]
  /\ chan \in [Proc -> Proc \cup {WAITER, None}]
  /\ flag \in [Proc -> SUBSET {"STHREAD", "SVFORK", "SVFDONE", "SNOWAIT", "STRC"}]
  /\ killed \subseteq Proc
  /\ wcode \in [Proc -> {"exited", "trapped", None}]
  /\ parent \in [Proc -> Proc \cup {None}]
  /\ child \in [Proc -> SUBSET Proc]
  /\ nextofkin \in [Proc -> Proc \cup {None}]
  /\ orphan \in [Proc -> SUBSET Proc]
  /\ arg \in [Proc -> Proc \cup {P_ALL, None}]
  /\ space \in [Proc -> Space \cup {None}]
  /\ spaces \subseteq Space
  /\ \A p \in Proc : stat[p] = "SSLEEP" => chan[p] # None
  /\ \A p \in Proc : chan[p] # None => stat[p] \in {"SSLEEP", "SSTOP"}

InUse == {p \in Proc : stat[p] # "none"}
Alive == {p \in InUse : stat[p] # "SZOMB"}

\* The p_parent of every process is one that is alive and has it on its p_child
\* list, its p_nextofkin likewise with the p_orphan list, and the lists hold
\* nobody else: through exits, adoptions, failed forks and freed structures no
\* pointer of the tree is left dangling.
TreeSound ==
  /\ \A q \in InUse \ {proc_init} : parent[q] \in Alive /\ nextofkin[q] \in Alive
  /\ \A p \in InUse :
       /\ child[p] = {q \in InUse \ {proc_init} : parent[q] = p}
       /\ orphan[p] = {q \in InUse \ {proc_init} : nextofkin[q] = p}

\* Those that run, or will run, in their address space.
Inhabitants == {p \in Alive : stat[p] # "SIDL" /\ space[p] # None}

\* as_free() never takes an address space that another thread or a vfork child
\* still runs in, none is left behind with nobody in it, and two processes share
\* one only as thread and creator or vfork child and parent.
SpacesSound ==
  /\ spaces = {space[p] : p \in Inhabitants}
  /\ \A p, q \in Inhabitants :
       p # q /\ space[p] = space[q] /\ ~Is(p, "STHREAD") /\ ~Is(q, "STHREAD")
         => (\E c \in {p, q} : Is(c, "SVFORK"))

\* From vfork() until the child has its own address space or none, the parent is
\* in the kernel and will look at that child: what vfwait()'s assertion says of
\* the process it finds, and no parent returns while its child runs in its memory.
VforkHeld ==
  \A c \in Alive :
    Is(c, "SVFORK") \/ (pc[c] \in {"relvm_exit", "relvm_exec"} /\ ~Is(c, "SVFDONE")) =>
      /\ parent[c] \in Alive
      /\ pc[parent[c]] \in {"procdup", "vfwait"}
      /\ arg[parent[c]] = c

\* Nobody sleeps through what it waits for: in waitid() no child that has exited
\* is there to be reported, in exit_threads() a thread is left, in vfwait() the
\* child still has the address space, in relvm() the parent has not seen it go.
\* What ends a futex_wait() is for Futex to say.
NoLostWait ==
  \A p \in Proc : stat[p] = "SSLEEP" /\ pc[p] # "futex" =>
    CASE pc[p] = "waitid" -> \A c \in Matching(p, arg[p]) : wcode[c] # "exited"
      [] pc[p] = "exit_threads" -> Threads(p) # {}
      [] pc[p] = "vfwait" -> Is(arg[p], "SVFORK")
      [] pc[p] \in {"relvm_exit", "relvm_exec"} -> ~Is(p, "SVFDONE")
      [] OTHER -> FALSE

Reaped(q) == stat[q] # "none" /\ stat'[q] = "none"

\* The assertion of freeproc() that the process is on the p_child list of its
\* parent and on the p_orphan list of its next of kin.
FreeprocUnlinks ==
  [][\A q \in Proc : Reaped(q) => q \in child[parent[q]] /\ q \in orphan[nextofkin[q]]]_vars

\* A thread that SIGKILL does not reach: it sleeps in futex_wait().
Beyond(p) == \E q \in Threads(p) : pc[q] = "futex"

\* Once it has begun, the exit of a process with threads ends, unless from some
\* moment on a thread of it is in futex_wait() for ever: every other thread takes
\* SIGKILL where it is, in user mode, stopped or in waitid(), and wakes the process
\* that waits for it.
ExitEnds ==
  \A p \in Proc :
    pc[p] = "exit_threads" ~> stat[p] \in {"SZOMB", "none"} \/ []Beyond(p)

\* The two sides of relvm() and vfwait() sleep on one channel and both get away:
\* the child that gave the address space back, and the parent that lent it.
VforkEnds ==
  \A p \in Proc :
    /\ pc[p] \in {"relvm_exit", "relvm_exec"} ~> pc[p] \notin {"relvm_exit", "relvm_exec"}
    /\ pc[p] = "vfwait" /\ ~Is(arg[p], "SVFORK") ~> pc[p] # "vfwait"

\* The comment above wait(): it looks also for stopped children and passes back
\* their status, so a parent that waits for a traced child hears that it stopped.
TrapReported ==
  \A p, c \in Proc :
    pc[p] = "waitid" /\ c \in Matching(p, arg[p]) /\ wcode[c] = "trapped" ~> pc[p] # "waitid"

=============================================================================
