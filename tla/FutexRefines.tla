---------------------------- MODULE FutexRefines ----------------------------
(***************************************************************************)
(* Futex implements FutexPromise: a thread counts as blocked from the      *)
(* moment its waiter is linked until futex_wake() or futex_timeout() marks *)
(* it.                                                                     *)
(***************************************************************************)
EXTENDS Futex

Waiter(t) == [thread |-> t, uaddr |-> arg[t].uaddr,
              expected |-> arg[t].expected, timed |-> arg[t].timed]

Promise == INSTANCE FutexPromise
               WITH blocked <- {Waiter(t) : t \in {t \in Thread : Blocked(t)}}

\* Whom a wake of one may find instead of a blocked thread: a waiter on the word
\* whose timeout has run, and which has not left the list yet.
Late(t, a) == \E w \in timed_out : as[w] = as[t] /\ arg[w].uaddr = a

\* futex_wait() compares and blocks as the call of this very thread asked.
EnqueueAsCalled(t) ==
    IF word[as[t]][arg[t].uaddr] = arg[t].expected
    THEN Promise!Block(t, arg[t].uaddr, arg[t].expected, arg[t].timed)
    ELSE Promise!Still

\* Every step of the code is the step of the promise that its caller asked for:
\* a wake releases the threads blocked on the caller's word in the caller's
\* address space, all of them or one, and nobody in another space; a timeout
\* releases its own thread; nothing else blocks or releases anyone.
AsCalled ==
    \A t \in Thread :
        /\ \A a \in Addr, v \in Value : Store(t, a, v) => Promise!Store(t, a, v)
        /\ \A a \in Addr : FutexWake(t, a, TRUE) => Promise!WakeAll(t, a)
        /\ \A a \in Addr : FutexWake(t, a, FALSE) =>
               \/ Promise!WakeOne(t, a)
               \/ Promise!Still /\ (Promise!Waiting(t, a) = {} \/ Late(t, a))
        /\ Enqueue(t) => EnqueueAsCalled(t)
        /\ FutexTimeout(t) => IF t \in woken THEN Promise!Still ELSE Promise!Expire(Waiter(t))
        /\ (\E a \in Addr, e \in Value, timed \in BOOLEAN : FutexWait(t, a, e, timed))
               => Promise!Still
        /\ Test(t) \/ Sleep(t) \/ Resume(t) \/ Finish(t) \/ Signal(t) \/ Deliver(t)
               => Promise!Still

\* futex_wait() and futex_wake() keep their promise to the program: comparing
\* and blocking are one step, and a thread is unblocked by nothing but a wake
\* of its word in its address space, or its timeout.
KeepsPromise == Promise!Spec /\ [][AsCalled]_vars
=============================================================================
