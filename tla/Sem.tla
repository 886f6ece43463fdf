---------------------------------- MODULE Sem ----------------------------------
(***************************************************************************)
(* System V semaphores: semget(), semctl(), semop() and semexit() of       *)
(* os/sem.c, with ipcget() of os/ipc.c, the allocation map of os/malloc.c  *)
(* and what they use of sleep() and wakeprocs() (os/slp.c).                *)
(*                                                                         *)
(* The kernel is not preemptive: a system call is one step up to the next  *)
(* place where it may sleep, which is sleep() itself and copyin(), when    *)
(* the page of the argument is not in memory.                              *)
(* Every caller passes ipcaccess() and the owner tests; pids and times are *)
(* left out.                                                               *)
(***************************************************************************)
EXTENDS Integers, Sequences, FiniteSets, Functions

CONSTANTS
    Proc,           \* process slots
    Thread,         \* the slots that user threads take
    NIDS, NSEMS,    \* seminfo.semmni, semmns: sets, semaphores in all
    SEMMAP,         \* seminfo.semmap: the size of the array that is the free map
    SEMMSL,         \* most semaphores in a set
    SEMVMX, SEMAEM, \* largest value, largest adjustment
    SEMUME, SEMMNU, \* adjustments per process, processes with some
    Key, IPC_PRIVATE,
    OpLists,        \* what processes pass to semop()
    Faults,         \* bound: the arguments that may be out of memory
    MaxFaults,      \* bound: how many processes are asleep in copyin() at once
    RemoveRaces,    \* whether a set is removed while a call on it is in copyin(), and
                    \* an identifier comes round while a call has the last one of it
    INT16_MAX       \* the largest identifier

Id == 0 .. NIDS - 1
SemNum == 0 .. NSEMS - 1
SemVal == 0 .. SEMVMX

ASSUME SemAssumption ==
    /\ Thread \subseteq Proc /\ MaxFaults \in Nat /\ RemoveRaces \in BOOLEAN
    /\ NIDS \in Nat \ {0} /\ NSEMS \in Nat \ {0} /\ SEMMSL \in Nat \ {0}
    /\ SEMVMX \in Nat \ {0} /\ SEMAEM \in Nat \ {0}
    /\ SEMUME \in Nat \ {0} /\ SEMMNU \in Nat
    /\ SEMMAP \in Nat /\ SEMMAP > 2 /\ INT16_MAX \in Nat
    /\ OpLists \subseteq Seq([num : Nat, op : Int, undo : BOOLEAN, nowait : BOOLEAN])

VARIABLES
    sema,       \* the set headers: allocated, key, seq, base and length
    sem,        \* the semaphores: value and the two counts of sleepers
    semmap,     \* the semaphores on the free map
    lost,       \* those that rmfree() has reported as lost
    undo,       \* slot -> the adjustments of its sem_undo, by semid and number
    has_undo,   \* the slots with a sem_undo structure
    pc, arg,    \* where each process is, and its call
    wchan,      \* what it sleeps on
    p_sig       \* the processes with a signal pending

semVars == << sema, sem, semmap, lost >>
undoVars == << undo, has_undo >>
vars == << semVars, undoVars, pc, arg, wchan, p_sig >>

(***************************************************************************)
(* "user": outside these calls.  "copyin": asleep in copyin().  "asleep": in *)
(* sleep(); "woken": taken off the sleep queue and not yet run.            *)
(* "gone": the slot is free.                                               *)
(***************************************************************************)
Place == {"user", "copyin", "asleep", "woken", "gone"}

\* The channels a process can sleep on: the addresses of the two counts.
Chan == {"semncnt", "semzcnt"} \X SemNum
NoChan == << "none", 0 >>

NoCall == [call |-> "none", semid |-> 0, sp |-> 0, ops |-> << >>, again |-> FALSE]
Empty == [k \in {} |-> 0]

Init ==
    /\ sema = [i \in Id |-> [alloc |-> FALSE, key |-> IPC_PRIVATE, seq |-> 0,
                             base |-> 0, nsems |-> 0]]
    /\ sem = [s \in SemNum |-> [val |-> 0, semncnt |-> 0, semzcnt |-> 0]]
    /\ semmap = SemNum /\ lost = {}
    /\ undo = [p \in Proc |-> Empty] /\ has_undo = {}
    /\ pc = [p \in Proc |-> "user"]
    /\ arg = [p \in Proc |-> NoCall]
    /\ wchan = [p \in Proc |-> NoChan]
    /\ p_sig = {}


\* The identifier of a set, and semconv().
semid(i) == sema[i].seq * NIDS + i
semconv(s) == sema[s % NIDS].alloc /\ s = semid(s % NIDS)

Call(name, i, ops) ==
    [call |-> name, semid |-> semid(i), sp |-> i, ops |-> ops, again |-> FALSE]

Allocated == {i \in Id : sema[i].alloc}
Members(i) == sema[i].base .. sema[i].base + sema[i].nsems - 1

\* wakeprocs() on a set of channels.
wakeprocs(places, chans) ==
    [q \in Proc |-> IF places[q] = "asleep" /\ wchan[q] \in chans
                    THEN "woken" ELSE places[q]]

-----------------------------------------------------------------------------
(* semaoe().  An adjustment is named by the semid and the number.          *)

\* Why semaoe() refuses to add the adjustment of an operation v.
\* Seeded fault AoeError_free: the free list of structures never ends.
AoeError_free(w, v, k) ==
    CASE v > SEMAEM \/ v < -SEMAEM -> "ERANGE"
      [] k \notin DOMAIN w.aoe /\ Cardinality(DOMAIN w.aoe) >= SEMUME -> "EINVAL"
      [] k \in DOMAIN w.aoe /\ w.aoe[k] - v \notin -SEMAEM .. SEMAEM -> "ERANGE"
      [] OTHER -> "ok"
AoeError(w, v, k) ==
    CASE v > SEMAEM \/ v < -SEMAEM -> "ERANGE"
      [] ~w.has /\ Cardinality(has_undo) >= SEMMNU -> "ENOSPC"
      [] k \notin DOMAIN w.aoe /\ Cardinality(DOMAIN w.aoe) >= SEMUME -> "EINVAL"
      [] k \in DOMAIN w.aoe /\ w.aoe[k] - v \notin -SEMAEM .. SEMAEM -> "ERANGE"
      [] OTHER -> "ok"

\* The adjustments after it: an entry that comes to 0 is dropped.
semaoe(aoe, v, k) ==
    LET n == (IF k \in DOMAIN aoe THEN aoe[k] ELSE 0) - v
        keys == IF n = 0 THEN DOMAIN aoe \ {k} ELSE DOMAIN aoe \cup {k}
    IN [j \in keys |-> IF j = k THEN n ELSE aoe[j]]

\* semunrm(): the adjustments of every process for the semaphores nums of a set.
\* Seeded fault semunrm_none: they are kept.
semunrm_none(s, nums) == undo
semunrm(s, nums) ==
    [p \in Proc |->
        Restrict(undo[p], {k \in DOMAIN undo[p] : ~(k[1] = s /\ k[2] \in nums)})]

-----------------------------------------------------------------------------
(* The loop of semop() on one list.  The work in progress is a record of   *)
(* the semaphores, the adjustments of the caller, the channels woken and   *)
(* what ended the loop, if anything did.                                   *)

Start(p) == [sem |-> sem, aoe |-> undo[p], has |-> p \in has_undo,
             woke |-> {}, end |-> "ok", done |-> 0]

\* What the code finds for an operation on semaphore s.
Verdict(w, op, s, k) ==
    LET val == w.sem[s].val
        adjust == IF op.undo THEN AoeError(w, op.op, k) ELSE "ok"
    IN CASE op.op > 0 -> IF val + op.op > SEMVMX THEN "ERANGE" ELSE adjust
         [] op.op < 0 -> IF val >= -op.op THEN adjust ELSE "semncnt"
         [] op.op = 0 -> IF val = 0 THEN "ok" ELSE "semzcnt"

\* The counts that an operation on a semaphore clears, waking their sleepers.
\* Seeded fault Cleared_positive: a decrement to zero wakes nobody.
Cleared_positive(cell, op) == {c \in {"semncnt"} : op > 0 /\ cell[c] > 0}
Cleared(cell, op) ==
    {c \in {"semncnt", "semzcnt"} :
        /\ cell[c] > 0
        /\ IF c = "semncnt" THEN op > 0 ELSE op < 0 /\ cell.val + op = 0}

Operate(w, op, s, k) ==
    LET cell == w.sem[s]
        cleared == Cleared(cell, op.op)
    IN [w EXCEPT
         !.sem[s] = [val |-> cell.val + op.op,
                     semncnt |-> IF "semncnt" \in cleared THEN 0 ELSE cell.semncnt,
                     semzcnt |-> IF "semzcnt" \in cleared THEN 0 ELSE cell.semzcnt],
         !.aoe = IF op.undo /\ op.op # 0 THEN semaoe(w.aoe, op.op, k) ELSE w.aoe,
         !.has = w.has \/ (op.undo /\ op.op # 0),
         !.woke = @ \cup (cleared \X {s}),
         !.done = @ + 1]

\* One turn of the loop, for an operation that is on semaphore base + op.num.
Try(w, op, base, s) ==
    LET x == base + op.num
        k == << s, op.num >>
        v == Verdict(w, op, x, k)
    IN IF w.end # "ok" THEN w
       ELSE IF v = "ok" THEN Operate(w, op, x, k)
       ELSE [w EXCEPT !.end = v]

Perform(p, ops, base, s) ==
    LET after[i \in 0 .. Len(ops)] ==
            IF i = 0 THEN Start(p) ELSE Try(after[i - 1], ops[i], base, s)
    IN after[Len(ops)]

\* What semundo() does for one operation.
TakeBack(w, op, base, s) ==
    [w EXCEPT !.sem[base + op.num].val = @ - op.op,
              !.aoe = IF op.undo /\ op.op # 0
                      THEN semaoe(@, -op.op, << s, op.num >>) ELSE @]

\* semundo(): the operations that were done, last first.
\* Seeded fault semundo_value: the adjustments are left as they are.
semundo_value(w, ops, base, s) ==
    LET back[i \in 0 .. w.done] ==
            IF i = 0 THEN w ELSE
            LET op == ops[w.done - i + 1]
            IN [back[i - 1] EXCEPT !.sem[base + op.num].val = @ - op.op]
    IN back[w.done]
semundo(w, ops, base, s) ==
    LET back[i \in 0 .. w.done] ==
            IF i = 0 THEN w ELSE TakeBack(back[i - 1], ops[w.done - i + 1], base, s)
    IN back[w.done]

-----------------------------------------------------------------------------
(* semget().  It, IPC_RMID and SETVAL do the same whoever calls them: the   *)
(* caller is some process, which need not be one of Proc.                  *)

\* The first semaphores of the runs on the free map, which has an entry for each;
\* mapinit() leaves it SEMMAP - 2 of them.
Starts == {s \in semmap : s - 1 \notin semmap}

\* rmalloc(): the first of n free semaphores in a row, if there are any.
Fits(n) == {b \in SemNum : b .. b + n - 1 \subseteq semmap}
rmalloc(n) == CHOOSE b \in Fits(n) : \A c \in Fits(n) : b <= c

\* ipcget() finds an allocated set with this key.
Found(key) == key # IPC_PRIVATE /\ \E i \in Id : sema[i].alloc /\ sema[i].key = key

\* A call that creates a set; one that finds a set or fails changes nothing.
semget(key, n) ==
    /\ ~Found(key)
    /\ Fits(n) # {}
    /\ \E i \in Id :
        /\ ~sema[i].alloc /\ \A j \in Id : ~sema[j].alloc => i <= j
        /\ sema' = [sema EXCEPT ![i] = [alloc |-> TRUE, key |-> key, seq |-> @.seq,
                                        base |-> rmalloc(n), nsems |-> n]]
    /\ semmap' = semmap \ (rmalloc(n) .. rmalloc(n) + n - 1)
    /\ UNCHANGED << sem, lost, undoVars, pc, arg, wchan, p_sig >>

-----------------------------------------------------------------------------
(* semctl().                                                               *)

Chans(S) == {"semncnt", "semzcnt"} \X S

\* IPC_RMID.  Seeded fault Rmid_silent: the sleepers are not woken.
Rmid_silent(S) == {}
Rmid(S) == {c \in Chans(S) : sem[c[2]][c[1]] > 0}

\* rmfree(): the semaphores S join a run of the free map beside them, or take an
\* entry of their own; without one they are lost.
\* Seeded fault Lost_never: mapsize is not looked at.
Beside(S) == \E s \in S : s - 1 \in semmap \/ s + 1 \in semmap
Lost_never(S) == {}
Lost(S) == IF Beside(S) \/ Cardinality(Starts) < SEMMAP - 2 THEN {} ELSE S

\* The next sequence number of a set.
NextSeq(i) == IF semid(i) + NIDS > INT16_MAX THEN 0 ELSE sema[i].seq + 1

\* No call is in copyin() on the set, nor has the identifier that comes next.
Settled(i) ==
    \A q \in Proc : pc[q] \in {"copyin", "asleep", "woken"} /\ arg[q].sp = i =>
        pc[q] # "copyin" /\ arg[q].semid # NextSeq(i) * NIDS + i

Remove(i) ==
    /\ sema[i].alloc
    /\ RemoveRaces \/ Settled(i)
    /\ undo' = semunrm(semid(i), 0 .. sema[i].nsems)
    /\ sem' = [s \in SemNum |-> IF s \in Members(i)
                                THEN [val |-> 0, semncnt |-> 0, semzcnt |-> 0]
                                ELSE sem[s]]
    /\ pc' = wakeprocs(pc, Rmid(Members(i)))
    /\ semmap' = semmap \cup (Members(i) \ Lost(Members(i)))
    /\ lost' = lost \cup Lost(Members(i))
    /\ sema' = [sema EXCEPT ![i].alloc = FALSE, ![i].seq = NextSeq(i)]
    /\ UNCHANGED << has_undo, arg, wchan, p_sig >>

\* What SETVAL and SETALL do to a semaphore.
Cell(cell, v) ==
    [val |-> v,
     semncnt |-> IF v # 0 THEN 0 ELSE cell.semncnt,
     semzcnt |-> IF v = 0 THEN 0 ELSE cell.semzcnt]

\* Whom they wake.
Wakes(cell, v) ==
    {c \in {"semncnt", "semzcnt"} : (c = "semncnt") = (v # 0) /\ cell[c] > 0}

SetVal(i, num, v) ==
    LET s == sema[i].base + num IN
    /\ sema[i].alloc /\ num < sema[i].nsems
    /\ sem' = [sem EXCEPT ![s] = Cell(@, v)]
    /\ pc' = wakeprocs(pc, Wakes(sem[s], v) \X {s})
    /\ undo' = semunrm(semid(i), {num})
    /\ UNCHANGED << sema, semmap, lost, has_undo, arg, wchan, p_sig >>

-----------------------------------------------------------------------------
(* The calls that copy their argument in: semop(), SETALL and IPC_SET.     *)

(***************************************************************************)
(* A call begins with semconv() and copyin(); the rest of it, with what it *)
(* found before copyin(), follows at once or when the page is there.       *)
(***************************************************************************)
MayFault(c) ==
    /\ c.ops \in Faults
    /\ Cardinality({p \in Proc : pc[p] = "copyin"}) < MaxFaults

Begin(p, c) ==
    /\ pc[p] = "user" /\ MayFault(c)
    /\ arg' = [arg EXCEPT ![p] = c]
    /\ pc' = [pc EXCEPT ![p] = "copyin"]
    /\ UNCHANGED << semVars, undoVars, wchan, p_sig >>

CopiedIn(p, c) ==
    \/ pc[p] = "user"
    \/ pc[p] = "copyin" /\ arg[p] = c

\* Back to user mode, where a pending signal is dealt with.
Return(p) == arg' = [arg EXCEPT ![p] = NoCall] /\ p_sig' = p_sig \ {p}

SetAll(p, c, vals) ==
    LET v(s) == vals[s - sema[c.sp].base]
    IN
    /\ CopiedIn(p, c) /\ c.call = "SETALL"
    /\ undo' = semunrm(c.semid, 0 .. sema[c.sp].nsems)
    /\ sem' = [s \in SemNum |->
                IF s \in Members(c.sp) THEN Cell(sem[s], v(s)) ELSE sem[s]]
    /\ pc' = [wakeprocs(pc, UNION {Wakes(sem[s], v(s)) \X {s} : s \in Members(c.sp)})
                EXCEPT ![p] = "user"]
    /\ Return(p)
    /\ UNCHANGED << sema, semmap, lost, has_undo, wchan >>

\* IPC_SET sets the mode, IPC_ALLOC in it.
IpcSet(p, c) ==
    /\ CopiedIn(p, c) /\ c.call = "IPC_SET"
    /\ sema' = [sema EXCEPT ![c.sp].alloc = TRUE]
    /\ pc' = [pc EXCEPT ![p] = "user"]
    /\ Return(p)
    /\ UNCHANGED << sem, semmap, lost, undoVars, wchan >>

(***************************************************************************)
(* sleep() returned 1: one sleeper less, and the last one wakes the rest.  *)
(* p gives up its sleep on c, with sems and places as they stand.          *)
(***************************************************************************)
Interrupted(p, c, sems, places) ==
    LET last == sems[c[2]][c[1]] <= 1 IN
    /\ sem' = [sems EXCEPT ![c[2]][c[1]] = IF last THEN 0 ELSE @ - 1]
    /\ pc' = [wakeprocs(places, IF last THEN {c} ELSE {}) EXCEPT ![p] = "user"]
    /\ wchan' = [wchan EXCEPT ![p] = NoChan]
    /\ Return(p)

\* A pass of semop() over the list, from the label check on.
Pass(p, c) ==
    LET ops == c.ops
        base == sema[c.sp].base
        w == Perform(p, ops, base, c.semid)
        u == IF w.end = "ok" THEN w ELSE semundo(w, ops, base, c.semid)
        waits == w.end \in {"semncnt", "semzcnt"} /\ ~ops[w.done + 1].nowait
        chan == << w.end, base + ops[w.done + 1].num >>
        counted == [u.sem EXCEPT ![chan[2]][chan[1]] = @ + 1]
        places == wakeprocs(pc, w.woke)
    IN
    /\ undo' = [undo EXCEPT ![p] = u.aoe]
    /\ has_undo' = IF u.has THEN has_undo \cup {p} ELSE has_undo
    /\ \/ /\ ~waits
          /\ sem' = u.sem
          /\ pc' = [places EXCEPT ![p] = "user"]
          /\ wchan' = [wchan EXCEPT ![p] = NoChan]
          /\ Return(p)
       \/ /\ waits /\ p \in p_sig
          /\ Interrupted(p, chan, counted, places)
       \/ /\ waits /\ p \notin p_sig
          /\ sem' = counted
          /\ pc' = [places EXCEPT ![p] = "asleep"]
          /\ wchan' = [wchan EXCEPT ![p] = chan]
          /\ arg' = [arg EXCEPT ![p] = c]
          /\ UNCHANGED p_sig
    /\ UNCHANGED << sema, semmap, lost >>

\* The numbers are checked against the set once, before the first pass.
TooBig(c) == ~c.again /\ \E n \in DOMAIN c.ops : c.ops[n].num >= sema[c.sp].nsems

semop(p, c) ==
    /\ CopiedIn(p, c) /\ c.call = "semop"
    /\ IF TooBig(c)
       THEN /\ pc' = [pc EXCEPT ![p] = "user"]
            /\ Return(p)
            /\ UNCHANGED << semVars, undoVars, wchan >>
       ELSE Pass(p, c)

\* swtch() returns in sleep(), and semop() looks the set up again.
Gone(p) == ~semconv(arg[p].semid)

Resume(p) ==
    /\ pc[p] = "woken"
    /\ \/ /\ p \in p_sig                                            \* EINTR
          /\ Interrupted(p, wchan[p], sem, pc)
          /\ UNCHANGED << sema, semmap, lost, undoVars >>
       \/ /\ p \notin p_sig /\ Gone(p)                              \* EIDRM
          /\ pc' = [pc EXCEPT ![p] = "user"]
          /\ wchan' = [wchan EXCEPT ![p] = NoChan]
          /\ Return(p)
          /\ UNCHANGED << semVars, undoVars >>
       \/ /\ p \notin p_sig /\ ~Gone(p)
          /\ Pass(p, [arg[p] EXCEPT !.again = TRUE])
       \/ /\ p \notin p_sig /\ ~Gone(p) /\ MayFault(arg[p])
          /\ pc' = [pc EXCEPT ![p] = "copyin"]
          /\ wchan' = [wchan EXCEPT ![p] = NoChan]
          /\ arg' = [arg EXCEPT ![p].again = TRUE]
          /\ UNCHANGED << semVars, undoVars, p_sig >>

\* psignal() to a process inside semop().
Signal(p) ==
    /\ pc[p] \in {"copyin", "asleep", "woken"} /\ p \notin p_sig
    /\ p_sig' = p_sig \cup {p}
    /\ pc' = [pc EXCEPT ![p] = IF @ = "asleep" THEN "woken" ELSE @]
    /\ UNCHANGED << semVars, undoVars, arg, wchan >>

-----------------------------------------------------------------------------
(* Processes begin, fork and exit.                                         *)

\* The semaphore of an adjustment, and whether the change stays in range.
\* Seeded fault Applies_always: the range is not looked at.
Target(k) == sema[k[1] % NIDS].base + k[2]
Applies_always(p, k) == TRUE
Applies(p, k) == sem[Target(k)].val + undo[p][k] \in 0 .. SEMVMX

\* The counts that semexit() clears on semaphore s when it adds v to it.
Released(s, v) ==
    {c \in {"semncnt", "semzcnt"} :
        sem[s][c] > 0 /\ IF c = "semncnt" THEN v > 0 ELSE sem[s].val + v = 0}

semexit(p, place) ==
    LET ks == {k \in DOMAIN undo[p] : semconv(k[1]) /\ Applies(p, k)}
        hit == {Target(k) : k \in ks}
        v(s) == undo[p][CHOOSE k \in ks : Target(k) = s]
        woke == UNION {Released(s, v(s)) \X {s} : s \in hit}
        count(c, s) == IF << c, s >> \in woke THEN 0 ELSE sem[s][c]
    IN
    /\ sem' = [s \in SemNum |->
                IF s \notin hit THEN sem[s] ELSE
                [val |-> sem[s].val + v(s),
                 semncnt |-> count("semncnt", s), semzcnt |-> count("semzcnt", s)]]
    /\ undo' = [undo EXCEPT ![p] = Empty]
    /\ has_undo' = has_undo \ {p}
    /\ pc' = [wakeprocs(pc, woke) EXCEPT ![p] = place]

(***************************************************************************)
(* exit() calls semexit(), unless thread_exit_current() takes a user       *)
(* thread away before that.                                                *)
(***************************************************************************)
Exit(p) ==
    /\ pc[p] = "user"
    /\ IF p \in Thread
       THEN pc' = [pc EXCEPT ![p] = "gone"] /\ UNCHANGED << sem, undoVars >>
       ELSE semexit(p, "gone")
    /\ UNCHANGED << sema, semmap, lost, arg, wchan, p_sig >>

\* newproc() fails in the parent: pexit() calls semexit() there.
ForkFails(p) ==
    /\ pc[p] = "user" /\ semexit(p, "user")
    /\ UNCHANGED << sema, semmap, lost, arg, wchan, p_sig >>

\* A new process takes a free slot.
newproc(p) ==
    /\ pc[p] = "gone"
    /\ pc' = [pc EXCEPT ![p] = "user"]
    /\ UNCHANGED << semVars, undoVars, arg, wchan, p_sig >>

-----------------------------------------------------------------------------

\* What p may call on a set, or is in the middle of.
Calls(p) ==
    {c \in {arg[p]} : pc[p] = "copyin"} \cup
    {Call("semop", i, ops) : i \in Allocated, ops \in OpLists} \cup
    {Call(name, i, << >>) : name \in {"SETALL", "IPC_SET"}, i \in Allocated}

Next ==
    \/ \E key \in Key, n \in 1 .. SEMMSL : semget(key, n)
    \/ \E i \in Id : Remove(i)
    \/ \E i \in Id, num \in 0 .. SEMMSL - 1, v \in SemVal : SetVal(i, num, v)
    \/ \E p \in Proc :
        \/ \E c \in Calls(p) :
            \/ Begin(p, c) \/ semop(p, c) \/ IpcSet(p, c)
            \/ \E vals \in [0 .. SEMMSL - 1 -> SemVal] : SetAll(p, c, vals)
        \/ Resume(p) \/ Signal(p)
        \/ Exit(p) \/ ForkFails(p) \/ newproc(p)

Spec == Init /\ [][Next]_vars

-----------------------------------------------------------------------------
(* Properties.                                                             *)

(***************************************************************************)
(* The tables have their types: no value leaves its range, no process      *)
(* holds more adjustments than its structure has room for and none has an  *)
(* adjustment without a structure.                                         *)
(***************************************************************************)
TypeOK ==
    /\ sema \in [Id -> [alloc : BOOLEAN, key : Key \cup {IPC_PRIVATE}, seq : Nat,
                        base : SemNum, nsems : 0 .. SEMMSL]]
    /\ sem \in [SemNum -> [val : SemVal, semncnt : Nat, semzcnt : Nat]]
    /\ semmap \subseteq SemNum /\ lost \subseteq SemNum
    /\ has_undo \subseteq Proc /\ Cardinality(has_undo) <= SEMMNU
    /\ \A p \in Proc : /\ Cardinality(DOMAIN undo[p]) <= SEMUME
                       /\ undo[p] # Empty => p \in has_undo
                       /\ pc[p] \in Place /\ wchan[p] \in Chan \cup {NoChan}
    /\ p_sig \subseteq Proc

(***************************************************************************)
(* semget() and IPC_RMID keep the sets apart: no two allocated sets share  *)
(* a semaphore or a key, every semaphore is in a set, on the free map or   *)
(* reported as lost, in one of the three only, and the runs of the free    *)
(* map have room in its array.                                             *)
(***************************************************************************)
SetsSound ==
    /\ \A i, j \in Allocated : i # j =>
        /\ Members(i) \cap Members(j) = {}
        /\ sema[i].key = sema[j].key => sema[i].key = IPC_PRIVATE
    /\ \A i \in Allocated : Members(i) \cap lost = {}
    /\ semmap = SemNum \ (lost \cup UNION {Members(i) : i \in Allocated})
    /\ Cardinality(Starts) <= SEMMAP - 2

(***************************************************************************)
(* semop() verifies "that the semaphores haven't been removed": a process  *)
(* sleeps only on a semaphore of the set that its identifier names.        *)
(***************************************************************************)
OnOwnSet ==
    \A p \in Proc : pc[p] = "asleep" =>
        semconv(arg[p].semid) /\ wchan[p][2] \in Members(arg[p].semid % NIDS)

(***************************************************************************)
(* The counts decide whether wakeprocs() is called at all, and the code    *)
(* clears them before the sleepers have run: while a process is asleep on  *)
(* a count it is not 0, and the count belongs to a set that exists.        *)
(***************************************************************************)
SleepersCounted ==
    /\ \A p \in Proc : pc[p] = "asleep" => sem[wchan[p][2]][wchan[p][1]] > 0
    /\ OnOwnSet

(***************************************************************************)
(* No process sleeps in semop() while the whole list it asked for could be *)
(* done.                                                                   *)
(***************************************************************************)
NoIdleSleeper ==
    \A p \in Proc : pc[p] = "asleep" =>
        Perform(p, arg[p].ops, sema[arg[p].sp].base, arg[p].semid).end # "ok"

(***************************************************************************)
(* What the adjustments are for: they name semaphores of sets that exist,  *)
(* so that semexit() of a process changes nothing of a later set.          *)
(***************************************************************************)
UndoSound ==
    \A p \in Proc : \A k \in DOMAIN undo[p] :
        /\ semconv(k[1]) /\ k[2] < sema[k[1] % NIDS].nsems
        /\ undo[p][k] \in (-SEMAEM .. SEMAEM) \ {0}

\* The operations of a list on a semaphore, and the sum of some of them.
On(ops, base, s) == {n \in DOMAIN ops : base + ops[n].num = s}
Total(ops, N) == SumFunctionOnSet([n \in DOMAIN ops |-> ops[n].op], N)

\* The adjustment of p for a semaphore, 0 if it has none.
Adjustment(p, s) ==
    LET ks == {k \in DOMAIN undo[p] : semconv(k[1]) /\ Target(k) = s}
    IN IF ks = {} THEN 0 ELSE undo[p][CHOOSE k \in ks : TRUE]

(***************************************************************************)
(* semop() is atomic: the pass that a process outside the kernel would now *)
(* make over a list does all of it, adjustments included, or semundo()     *)
(* leaves every value and every adjustment as the pass found them.         *)
(***************************************************************************)
AllOrNothing ==
    \A p \in Proc, i \in Allocated, ops \in OpLists :
        pc[p] = "user" /\ ~TooBig(Call("semop", i, ops)) =>
        LET base == sema[i].base
            w == Perform(p, ops, base, semid(i))
            u == semundo(w, ops, base, semid(i))
            aoe(k) == IF k \in DOMAIN w.aoe THEN w.aoe[k] ELSE 0
        IN IF w.end = "ok"
           THEN \A s \in Members(i) :
                /\ w.sem[s].val = sem[s].val + Total(ops, On(ops, base, s))
                /\ aoe(<< semid(i), s - base >>)
                     = Adjustment(p, s)
                        - Total(ops, {n \in On(ops, base, s) : ops[n].undo})
           ELSE u.aoe = undo[p] /\ \A s \in SemNum : u.sem[s].val = sem[s].val

(***************************************************************************)
(* The end of a process takes back what it did with SEM_UNDO: the value    *)
(* changes by its adjustment, or, where that would leave the range, not at *)
(* all.                                                                    *)
(***************************************************************************)
ExitUndoes ==
    [][\A p \in Proc \ Thread : pc[p] # "gone" /\ pc'[p] = "gone" =>
        /\ undo'[p] = Empty
        /\ \A s \in SemNum :
            LET v == sem[s].val + Adjustment(p, s)
            IN sem'[s].val = IF v \in SemVal THEN v ELSE sem[s].val]_vars

(***************************************************************************)
(* The comment above semexit() calls it part of the cleanup on process     *)
(* exit: a slot that is free has no adjustments left, for the next process *)
(* in it to inherit.                                                       *)
(***************************************************************************)
UndoGone == \A p \in Proc : pc[p] = "gone" => undo[p] = Empty
=============================================================================
