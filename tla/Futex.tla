-------------------------------- MODULE Futex --------------------------------
(***************************************************************************)
(* futex_wait() and futex_wake() of os/thread.c, with what they use of     *)
(* sleep() and wakeprocs() (os/slp.c), of the callout table (os/clock.c)   *)
(* and of signal posting (os/sig.c).                                       *)
(*                                                                         *)
(* A thread is a process that shares its address space.  The kernel is not *)
(* preemptive: a thread in the kernel keeps the processor until it sleeps  *)
(* or returns to user mode.  Between any two steps below interrupts are    *)
(* enabled, so that timein() may call futex_timeout() and a device may     *)
(* post a signal; what the code does at splhi is one step.                 *)
(*                                                                         *)
(* A thread waits on one word at a time, so its waiter structure is named  *)
(* by the thread.                                                          *)
(***************************************************************************)
EXTENDS Integers, Sequences, SequencesExt, FiniteSets

CONSTANTS Thread, Space, Addr, Value,
          as,          \* thread -> the address space it runs in
          NoThread, NoAddr

ASSUME FutexAssumption ==
    /\ as \in [Thread -> Space]
    /\ NoThread \notin Thread /\ NoAddr \notin Addr
    /\ Addr # {} /\ Value # {}

VARIABLES
    word,       \* user memory, one per address space
    owes,       \* the word a thread has changed and not yet called futex_wake for
    pc,         \* where each thread is, see Place
    arg,        \* the arguments of its futex_wait()
    kern,       \* the thread that is in the kernel, on the processor
    futex_waiters,          \* the list, head first
    woken, timed_out,       \* the waiters with that flag
    callout,    \* thread -> entries of the callout table for its waiter
    asleep,     \* the threads on the sleep queues
    p_sig       \* the threads with a signal pending

userVars == << word, owes >>
waiterVars == << futex_waiters, woken, timed_out, callout >>
vars == << userVars, pc, arg, kern, waiterVars, asleep, p_sig >>

(***************************************************************************)
(* "user": outside futex_wait().  "enter": in it, before the waiter is     *)
(* linked.  "test": at the test of the loop.  "call": the test said to     *)
(* sleep, and sleep() has not begun.  "swtch": in sleep(), asleep or woken *)
(* and not yet run.  "done", "eintr": after the loop.                      *)
(***************************************************************************)
Place == {"user", "enter", "test", "call", "swtch", "done", "eintr"}
Linked(t) == pc[t] \in {"test", "call", "swtch", "done", "eintr"}

Request == [uaddr : Addr, expected : Value, timed : BOOLEAN]

Init ==
    /\ word \in [Space -> [Addr -> Value]]
    /\ owes = [t \in Thread |-> NoAddr]
    /\ pc = [t \in Thread |-> "user"]
    /\ arg = [t \in Thread |-> CHOOSE r \in Request : TRUE]
    /\ kern = NoThread
    /\ futex_waiters = << >>
    /\ woken = {} /\ timed_out = {}
    /\ callout = [t \in Thread |-> 0]
    /\ asleep = {} /\ p_sig = {}

-----------------------------------------------------------------------------
(* The user program: a thread that changes a word wakes those who wait for *)
(* that, before it goes on to change or wait for another.                  *)

Idle(t) == kern = NoThread /\ pc[t] = "user"

Store(t, a, v) ==
    /\ Idle(t) /\ owes[t] = NoAddr
    /\ word[as[t]][a] # v
    /\ word' = [word EXCEPT ![as[t]][a] = v]
    /\ owes' = [owes EXCEPT ![t] = a]
    /\ UNCHANGED << pc, arg, kern, waiterVars, asleep, p_sig >>

-----------------------------------------------------------------------------
(* sleep() and psignal().                                                  *)

PZERO == 25
PMASK == 127
PCATCH == 256

\* The test of sleep() whether a signal may disturb the sleep.
Interruptible(disp) == disp % (PMASK + 1) > PZERO

\* What do_futex_wait() passes to sleep().
futexDisp == PZERO + PCATCH

\* sleep() finds a signal, before or after it slept.
Caught(t) == Interruptible(futexDisp) /\ t \in p_sig

\* wakeprocs() on the channels of a set of waiters.
\* Seeded fault wakeprocs_none: the sleepers are left on their queues.
wakeprocs_none(sleepers, ws) == sleepers
wakeprocs(sleepers, ws) == sleepers \ ws

-----------------------------------------------------------------------------
(* do_futex_wait().                                                        *)

\* Up to the return of kmem_zalloc(), which may give the processor away.
FutexWait(t, a, e, timed) ==
    /\ Idle(t) /\ owes[t] = NoAddr
    /\ arg' = [arg EXCEPT ![t] = [uaddr |-> a, expected |-> e, timed |-> timed]]
    /\ pc' = [pc EXCEPT ![t] = "enter"]
    /\ kern' \in {t, NoThread}
    /\ UNCHANGED << userVars, waiterVars, asleep, p_sig >>

\* Seeded fault Unchanged_assumed: the word is not compared under splhi().
Unchanged_assumed(t) == TRUE
Unchanged(t) == word[as[t]][arg[t].uaddr] = arg[t].expected

\* The comparison, and the waiter is linked and its timeout started, or freed.
Enqueue(t) ==
    /\ kern \in {t, NoThread} /\ pc[t] = "enter"
    /\ IF Unchanged(t)
       THEN /\ futex_waiters' = << t >> \o futex_waiters
            /\ callout' = IF arg[t].timed
                          THEN [callout EXCEPT ![t] = @ + 1] ELSE callout
            /\ pc' = [pc EXCEPT ![t] = "test"]
            /\ kern' = t
       ELSE /\ pc' = [pc EXCEPT ![t] = "user"]
            /\ kern' = NoThread
            /\ UNCHANGED << futex_waiters, callout >>
    /\ UNCHANGED << userVars, arg, woken, timed_out, asleep, p_sig >>

\* The test of the loop.
Test(t) ==
    /\ kern = t /\ pc[t] = "test"
    /\ pc' = [pc EXCEPT ![t] = IF t \in woken \cup timed_out THEN "done" ELSE "call"]
    /\ UNCHANGED << userVars, arg, kern, waiterVars, asleep, p_sig >>

Sleep(t) ==
    /\ kern = t /\ pc[t] = "call"
    /\ IF Caught(t)
       THEN /\ pc' = [pc EXCEPT ![t] = "eintr"]
            /\ UNCHANGED << kern, asleep >>
       ELSE /\ pc' = [pc EXCEPT ![t] = "swtch"]
            /\ asleep' = asleep \cup {t}
            /\ kern' = NoThread
    /\ UNCHANGED << userVars, arg, waiterVars, p_sig >>

\* sleep() returns.
Resume(t) ==
    /\ kern = NoThread /\ pc[t] = "swtch" /\ t \notin asleep
    /\ pc' = [pc EXCEPT ![t] = IF Caught(t) THEN "eintr" ELSE "test"]
    /\ kern' = t
    /\ UNCHANGED << userVars, arg, waiterVars, asleep, p_sig >>

\* futex_remove().
\* Seeded fault futex_remove_head: the head of the list goes, whoever it is.
futex_remove_head(s, t) == Tail(s)
futex_remove(s, t) == RemoveAt(s, CHOOSE i \in DOMAIN s : s[i] = t)

\* Whether the timeout is cancelled.
\* Seeded fault Untimeout_unwoken: not when the waiter was woken.
Untimeout_unwoken(t) == arg[t].timed /\ t \notin timed_out \cup woken
Untimeout(t) == arg[t].timed /\ t \notin timed_out

\* The waiter is unlinked and freed, and the call returns.
Finish(t) ==
    /\ kern = t /\ pc[t] \in {"done", "eintr"}
    /\ callout' = IF Untimeout(t) THEN [callout EXCEPT ![t] = 0] ELSE callout
    /\ futex_waiters' = futex_remove(futex_waiters, t)
    /\ woken' = woken \ {t} /\ timed_out' = timed_out \ {t}
    /\ pc' = [pc EXCEPT ![t] = "user"]
    /\ kern' = NoThread
    /\ UNCHANGED << userVars, arg, asleep, p_sig >>

-----------------------------------------------------------------------------
(* do_futex_wake(), futex_timeout() and signals.                           *)

\* Seeded fault Matches_anyspace: the address space is not compared.
Matches_anyspace(w, t, a) == arg[w].uaddr = a /\ w \notin woken
Matches(w, t, a) == as[w] = as[t] /\ arg[w].uaddr = a /\ w \notin woken

\* The waiters a call wakes: all that match, or the first of the list.
\* Seeded fault Hits_one: the loop ends at the first in any case.
Hits_one(t, a, all) ==
    {futex_waiters[i] : i \in {i \in DOMAIN futex_waiters :
        /\ Matches(futex_waiters[i], t, a)
        /\ \A j \in 1 .. i - 1 : ~ Matches(futex_waiters[j], t, a)}}
Hits(t, a, all) ==
    {futex_waiters[i] : i \in {i \in DOMAIN futex_waiters :
        /\ Matches(futex_waiters[i], t, a)
        /\ all \/ \A j \in 1 .. i - 1 : ~ Matches(futex_waiters[j], t, a)}}

FutexWake(t, a, all) ==
    /\ Idle(t)
    /\ owes[t] = NoAddr \/ (owes[t] = a /\ all)
    /\ owes' = [owes EXCEPT ![t] = NoAddr]
    /\ woken' = woken \cup Hits(t, a, all)
    /\ asleep' = wakeprocs(asleep, Hits(t, a, all))
    /\ UNCHANGED << word, pc, arg, kern, futex_waiters, timed_out, callout, p_sig >>

\* timein() takes the entry off the callout table and calls futex_timeout().
FutexTimeout(t) ==
    /\ callout[t] > 0
    /\ callout' = [callout EXCEPT ![t] = @ - 1]
    /\ IF t \in woken
       THEN UNCHANGED << timed_out, asleep >>
       ELSE /\ timed_out' = timed_out \cup {t}
            /\ asleep' = wakeprocs(asleep, {t})
    /\ UNCHANGED << userVars, pc, arg, kern, futex_waiters, woken, p_sig >>

\* sigtoproc(): a sleep that a signal may disturb ends.
Signal(t) ==
    /\ p_sig' = p_sig \cup {t}
    /\ asleep' = IF Interruptible(futexDisp) THEN asleep \ {t} ELSE asleep
    /\ UNCHANGED << userVars, pc, arg, kern, waiterVars >>

\* psig(), on the way back to user mode.
Deliver(t) ==
    /\ Idle(t) /\ t \in p_sig
    /\ p_sig' = p_sig \ {t}
    /\ UNCHANGED << userVars, pc, arg, kern, waiterVars, asleep >>

-----------------------------------------------------------------------------
WaitStep(t) == Enqueue(t) \/ Test(t) \/ Sleep(t) \/ Resume(t) \/ Finish(t)

Next ==
    \E t \in Thread :
        \/ \E a \in Addr, v \in Value : Store(t, a, v)
        \/ \E a \in Addr, e \in Value, timed \in BOOLEAN : FutexWait(t, a, e, timed)
        \/ \E a \in Addr, all \in BOOLEAN : FutexWake(t, a, all)
        \/ WaitStep(t)
        \/ FutexTimeout(t) \/ Signal(t) \/ Deliver(t)

Spec == Init /\ [][Next]_vars

(***************************************************************************)
(* Fairness: a thread that can run in the kernel does so in the end, and   *)
(* the clock comes to every callout.  Nothing is assumed of the program.   *)
(***************************************************************************)
FairSpec ==
    /\ Spec
    /\ \A t \in Thread : SF_vars(WaitStep(t)) /\ WF_vars(FutexTimeout(t))

-----------------------------------------------------------------------------
TypeOK ==
    /\ word \in [Space -> [Addr -> Value]]
    /\ owes \in [Thread -> Addr \cup {NoAddr}]
    /\ pc \in [Thread -> Place]
    /\ arg \in [Thread -> Request]
    /\ kern \in Thread \cup {NoThread}
    /\ futex_waiters \in Seq(Thread)
    /\ woken \subseteq Thread /\ timed_out \subseteq Thread
    /\ callout \in [Thread -> 0 .. 1]
    /\ asleep \subseteq Thread /\ p_sig \subseteq Thread

\* The list holds each waiter that is not freed, once, and no other: a wake
\* never reaches memory that kmem_free() has taken back.
ListSound ==
    /\ \A i, j \in DOMAIN futex_waiters :
           futex_waiters[i] = futex_waiters[j] => i = j
    /\ \A t \in Thread : Linked(t) <=> \E i \in DOMAIN futex_waiters : futex_waiters[i] = t

\* A timeout never fires for a waiter that was freed.
CalloutSound == \A t \in Thread : callout[t] > 0 => Linked(t) /\ arg[t].timed

\* A waiter that nothing has told to return.
Blocked(t) == Linked(t) /\ pc[t] # "eintr" /\ t \notin woken \cup timed_out

\* No wakeup is lost between the comparison and the sleep: who waits for a word
\* to change finds it unchanged, or its changer has still to call futex_wake().
NoLostWake ==
    \A t \in Thread : Blocked(t) =>
        \/ word[as[t]][arg[t].uaddr] = arg[t].expected
        \/ \E s \in Thread : as[s] = as[t] /\ owes[s] = arg[t].uaddr

\* A waiter that was woken is not left asleep, and its call returns.
WokenReturns == \A t \in Thread : t \in woken ~> pc[t] = "user"

\* The same comment: a thread whose timeout has run does not stay asleep.
TimeoutObserved == asleep \cap timed_out = {}
=============================================================================
