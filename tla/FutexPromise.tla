---------------------------- MODULE FutexPromise ----------------------------
(***************************************************************************)
(* What futex_wait() and futex_wake() promise a user program, after the    *)
(* comments of os/thread.c: the comparison of the word and the decision to *)
(* block are one step with respect to wakes, and a blocked thread stays so *)
(* until a wake of its word by another thread of its address space, or its *)
(* timeout.  Which operation a step has to be is for the caller to say:    *)
(* FutexRefines!AsCalled.                                                  *)
(***************************************************************************)
CONSTANTS Thread, Space, Addr, Value, as

VARIABLES
    word,      \* user memory
    blocked    \* who is blocked, on which word and for which value, with a timeout or not

vars == << word, blocked >>

Init == word \in [Space -> [Addr -> Value]] /\ blocked = {}

\* A blocked thread does nothing.
Free(t) == \A b \in blocked : b.thread # t

Store(t, a, v) ==
    /\ Free(t)
    /\ word' = [word EXCEPT ![as[t]][a] = v]
    /\ UNCHANGED blocked

\* The word has the value expected at the moment the thread blocks.
Block(t, a, e, timed) ==
    /\ Free(t)
    /\ word[as[t]][a] = e
    /\ blocked' = blocked \cup {[thread |-> t, uaddr |-> a, expected |-> e, timed |-> timed]}
    /\ UNCHANGED word

Waiting(t, a) == {b \in blocked : as[b.thread] = as[t] /\ b.uaddr = a}

\* A thread wakes those of its own address space: all that wait on the word, or one.
WakeAll(t, a) ==
    /\ Free(t)
    /\ blocked' = blocked \ Waiting(t, a)
    /\ UNCHANGED word

WakeOne(t, a) ==
    /\ Free(t)
    /\ \E b \in Waiting(t, a) : blocked' = blocked \ {b}
    /\ UNCHANGED word

Expire(b) ==
    /\ b.timed
    /\ blocked' = blocked \ {b}
    /\ UNCHANGED word

\* The operation shows nothing yet, or nothing any more.
Still == UNCHANGED vars

Next ==
    \/ \E t \in Thread, a \in Addr :
           \/ \E v \in Value : Store(t, a, v)
           \/ \E e \in Value, timed \in BOOLEAN : Block(t, a, e, timed)
           \/ WakeAll(t, a) \/ WakeOne(t, a)
    \/ \E b \in blocked : Expire(b)

Spec == Init /\ [][Next]_vars
=============================================================================
