---------------------------- MODULE Futex_proofs ----------------------------
(***************************************************************************)
(* The list of waiters, the callout table and the sleep queues of Futex    *)
(* agree with what the threads are doing, no wakeup is lost, and Futex     *)
(* implements FutexPromise: for any threads, address spaces and words.     *)
(*                                                                         *)
(* The invariant adds to the checked ones where each thread can be while   *)
(* another is in the kernel, that a waiter still to be woken has its       *)
(* timeout pending, and that only those in sleep() are on a sleep queue.   *)
(***************************************************************************)
EXTENDS FutexRefines, SeqLemmas, IndLemmas

\* Who is in the kernel.
KernInv ==
    \A t \in Thread :
        /\ pc[t] \in {"test", "call", "done", "eintr"} => kern = t
        /\ kern = t => pc[t] \in {"enter", "test", "call", "done", "eintr"}

\* The flags of the waiters and the sleep queues.
WaiterInv ==
    /\ \A t \in woken \cup timed_out : Linked(t)
    /\ \A t \in asleep : pc[t] = "swtch" /\ t \notin woken
    /\ \A t \in Thread : pc[t] # "eintr"
    /\ \A t \in Thread : pc[t] = "done" => t \in woken \cup timed_out
    /\ \A t \in Thread : pc[t] = "call" => t \notin woken

CalloutInv ==
    \A t \in Thread :
        callout[t] > 0 => Linked(t) /\ arg[t].timed /\ t \notin timed_out

ListInv == Injective(futex_waiters) /\ \A t \in Thread : Linked(t) <=> Holds(futex_waiters, t)

IInv == TypeOK /\ KernInv /\ WaiterInv /\ CalloutInv /\ ListInv /\ NoLostWake

-----------------------------------------------------------------------------
\* PZERO with PCATCH is not an interruptible priority.
LEMMA NeverCaught == ~ Interruptible(futexDisp)
BY DEF Interruptible, futexDisp, PZERO, PMASK, PCATCH

\* futex_remove() takes one waiter off the list.
LEMMA RemoveWaiter ==
    ASSUME NEW s \in Seq(Thread), Injective(s), NEW t \in Thread, Holds(s, t)
    PROVE  /\ futex_remove(s, t) \in Seq(Thread)
           /\ Injective(futex_remove(s, t))
           /\ \A x : Holds(futex_remove(s, t), x) <=> Holds(s, x) /\ x # t
<1> DEFINE i == CHOOSE n \in DOMAIN s : s[n] = t
<1>1. i \in DOMAIN s /\ s[i] = t
  BY DEF Holds
<1> HIDE DEF i
<1>2. futex_remove(s, t) = RemoveAt(s, i)
  BY DEF futex_remove, i
<1> QED BY <1>1, <1>2, RemoveHolds

\* The threads futex_wake() marks are waiters on the word.
LEMMA HitsAre ==
    ASSUME IInv, NEW t \in Thread, NEW a \in Addr, NEW all \in BOOLEAN
    PROVE  /\ Hits(t, a, all) \subseteq Thread
           /\ \A w \in Hits(t, a, all) : Linked(w) /\ Matches(w, t, a)
           /\ all => \A w \in Thread : Linked(w) /\ Matches(w, t, a) => w \in Hits(t, a, all)
<1>1. \A i \in DOMAIN futex_waiters : futex_waiters[i] \in Thread
  BY ElementOfSeq, LenProperties DEF IInv, TypeOK
<1>2. \A w \in Hits(t, a, all) : Holds(futex_waiters, w) /\ Matches(w, t, a)
  BY DEF Hits, Holds
<1>3. Hits(t, a, all) \subseteq Thread
  BY <1>1 DEF Hits
<1>4. all => \A w \in Thread : Linked(w) /\ Matches(w, t, a) => w \in Hits(t, a, all)
  BY DEF Hits, IInv, ListInv, Holds
<1> QED BY <1>2, <1>3, <1>4 DEF IInv, ListInv

\* The initial states are within the invariant.
LEMMA InitIInv == Init => IInv
<1> SUFFICES ASSUME Init PROVE IInv
  OBVIOUS
<1>1. Request # {}
  <2>1. PICK a \in Addr, v \in Value : TRUE
    BY FutexAssumption DEF FutexAssumption
  <2>2. [uaddr |-> a, expected |-> v, timed |-> TRUE] \in Request
    BY DEF Request
  <2> QED BY <2>2
<1>2. arg \in [Thread -> Request]
  BY <1>1 DEF Init
<1>3. TypeOK
  BY <1>2 DEF Init, TypeOK, Place
<1>4. KernInv /\ WaiterInv /\ CalloutInv /\ NoLostWake
  BY FutexAssumption
     DEF Init, FutexAssumption, KernInv, WaiterInv, CalloutInv, NoLostWake, Linked, Blocked
<1>5. ListInv
  BY DEF Init, ListInv, Injective, Holds, Linked
<1> QED BY <1>3, <1>4, <1>5 DEF IInv

-----------------------------------------------------------------------------
\* Every step keeps the types.
LEMMA TypeStep == IInv /\ [Next]_vars => TypeOK'
<1> SUFFICES ASSUME IInv, [Next]_vars PROVE TypeOK'
  OBVIOUS
<1> USE DEF IInv, TypeOK
<1>1. ASSUME NEW t \in Thread, NEW a \in Addr, NEW v \in Value, Store(t, a, v)
      PROVE  TypeOK'
  BY <1>1, FutexAssumption DEF Store, waiterVars, FutexAssumption
<1>2. ASSUME NEW t \in Thread, NEW a \in Addr, NEW e \in Value, NEW timed \in BOOLEAN,
             FutexWait(t, a, e, timed)
      PROVE  TypeOK'
  BY <1>2 DEF FutexWait, waiterVars, userVars, Request, Place
<1>3. ASSUME NEW t \in Thread, NEW a \in Addr, NEW all \in BOOLEAN, FutexWake(t, a, all)
      PROVE  TypeOK'
  BY <1>3, HitsAre DEF FutexWake, wakeprocs
<1>4. ASSUME NEW t \in Thread, Enqueue(t) PROVE TypeOK'
  <2>1. futex_waiters' \in Seq(Thread)
    <3>1. << t >> \o futex_waiters \in Seq(Thread)
      BY PrependHolds
    <3> QED BY <1>4, <3>1 DEF Enqueue
  <2>2. callout' \in [Thread -> 0 .. 1]
    <3>1. callout[t] = 0
      BY <1>4 DEF Enqueue, CalloutInv, Linked
    <3> QED BY <1>4, <3>1 DEF Enqueue
  <2> QED BY <1>4, <2>1, <2>2 DEF Enqueue, userVars, Place
<1>5. ASSUME NEW t \in Thread, Test(t) \/ Sleep(t) \/ Resume(t) PROVE TypeOK'
  BY <1>5 DEF Test, Sleep, Resume, userVars, waiterVars, Place
<1>6. ASSUME NEW t \in Thread, Finish(t) PROVE TypeOK'
  <2>1. futex_waiters' \in Seq(Thread)
    BY <1>6, RemoveWaiter DEF Finish, ListInv, Linked
  <2> QED BY <1>6, <2>1 DEF Finish, userVars, Place
<1>7. ASSUME NEW t \in Thread, FutexTimeout(t) PROVE TypeOK'
  BY <1>7 DEF FutexTimeout, wakeprocs, userVars
<1>8. ASSUME NEW t \in Thread, Signal(t) \/ Deliver(t) PROVE TypeOK'
  BY <1>8 DEF Signal, Deliver, userVars, waiterVars
<1>9. CASE UNCHANGED vars
  BY <1>9 DEF vars, userVars, waiterVars
<1> QED BY <1>1, <1>2, <1>3, <1>4, <1>5, <1>6, <1>7, <1>8, <1>9 DEF Next, WaitStep

\* Every step keeps the places of the threads, the flags of their waiters, the
\* sleep queues and the callout table together.
LEMMA PlaceStep == IInv /\ [Next]_vars => (KernInv /\ WaiterInv /\ CalloutInv)'
<1> SUFFICES ASSUME IInv, [Next]_vars PROVE (KernInv /\ WaiterInv /\ CalloutInv)'
  OBVIOUS
<1> USE FutexAssumption, NeverCaught
    DEF IInv, TypeOK, FutexAssumption, KernInv, WaiterInv, CalloutInv, Linked, Idle
<1>1. ASSUME NEW t \in Thread, NEW a \in Addr, NEW v \in Value, Store(t, a, v)
      PROVE  (KernInv /\ WaiterInv /\ CalloutInv)'
  BY <1>1 DEF Store, waiterVars
<1>2. ASSUME NEW t \in Thread, NEW a \in Addr, NEW e \in Value, NEW timed \in BOOLEAN,
             FutexWait(t, a, e, timed)
      PROVE  (KernInv /\ WaiterInv /\ CalloutInv)'
  BY <1>2 DEF FutexWait, waiterVars
<1>3. ASSUME NEW t \in Thread, NEW a \in Addr, NEW all \in BOOLEAN, FutexWake(t, a, all)
      PROVE  (KernInv /\ WaiterInv /\ CalloutInv)'
  BY <1>3, HitsAre DEF FutexWake, wakeprocs
<1>4. ASSUME NEW t \in Thread, Enqueue(t)
      PROVE  (KernInv /\ WaiterInv /\ CalloutInv)'
  BY <1>4 DEF Enqueue
<1>5. ASSUME NEW t \in Thread, Test(t)
      PROVE  (KernInv /\ WaiterInv /\ CalloutInv)'
  BY <1>5 DEF Test, waiterVars
<1>6. ASSUME NEW t \in Thread, Sleep(t)
      PROVE  (KernInv /\ WaiterInv /\ CalloutInv)'
  BY <1>6 DEF Sleep, Caught, waiterVars
<1>7. ASSUME NEW t \in Thread, Resume(t)
      PROVE  (KernInv /\ WaiterInv /\ CalloutInv)'
  BY <1>7 DEF Resume, Caught, waiterVars
<1>8. ASSUME NEW t \in Thread, Finish(t)
      PROVE  (KernInv /\ WaiterInv /\ CalloutInv)'
  BY <1>8 DEF Finish, Untimeout
<1>9. ASSUME NEW t \in Thread, FutexTimeout(t)
      PROVE  (KernInv /\ WaiterInv /\ CalloutInv)'
  BY <1>9 DEF FutexTimeout, wakeprocs
<1>10. ASSUME NEW t \in Thread, Signal(t) \/ Deliver(t)
       PROVE  (KernInv /\ WaiterInv /\ CalloutInv)'
  BY <1>10 DEF Signal, Deliver, waiterVars
<1>11. CASE UNCHANGED vars
  BY <1>11 DEF vars, waiterVars
<1> QED
  BY <1>1, <1>2, <1>3, <1>4, <1>5, <1>6, <1>7, <1>8, <1>9, <1>10, <1>11 DEF Next, WaitStep

\* Every step keeps the list of waiters.
LEMMA ListStep == IInv /\ [Next]_vars => ListInv'
<1> SUFFICES ASSUME IInv, [Next]_vars PROVE ListInv'
  OBVIOUS
<1>1. TypeOK /\ ListInv /\ KernInv /\ WaiterInv
  BY DEF IInv
<1>2. ASSUME futex_waiters' = futex_waiters, \A t \in Thread : Linked(t)' <=> Linked(t)
      PROVE  ListInv'
  BY <1>1, <1>2 DEF ListInv
<1>3. ASSUME NEW t \in Thread, Enqueue(t) PROVE ListInv'
  <2>1. pc[t] = "enter" /\ ~ Linked(t)
    BY <1>3 DEF Enqueue, Linked
  <2>2. CASE Unchanged(t)
    <3>1. futex_waiters' = << t >> \o futex_waiters /\ pc' = [pc EXCEPT ![t] = "test"]
      BY <1>3, <2>2 DEF Enqueue
    <3>2. ~ Holds(futex_waiters, t)
      BY <1>1, <2>1 DEF ListInv
    <3>3. Injective(futex_waiters')
          /\ \A x : Holds(futex_waiters', x) <=> Holds(futex_waiters, x) \/ x = t
      <4>1. futex_waiters \in Seq(Thread) /\ Injective(futex_waiters)
        BY <1>1 DEF TypeOK, ListInv
      <4> QED BY <3>1, <3>2, <4>1, PrependHolds
    <3>4. \A s \in Thread : Linked(s)' <=> Linked(s) \/ s = t
      BY <1>1, <3>1 DEF TypeOK, Linked
    <3> QED BY <1>1, <3>3, <3>4 DEF ListInv
  <2>3. CASE ~ Unchanged(t)
    <3>1. futex_waiters' = futex_waiters /\ pc' = [pc EXCEPT ![t] = "user"]
      BY <1>3, <2>3 DEF Enqueue
    <3> QED BY <1>1, <1>2, <2>1, <3>1 DEF TypeOK, Linked
  <2> QED BY <2>2, <2>3
<1>4. ASSUME NEW t \in Thread, Finish(t) PROVE ListInv'
  <2>1. /\ pc' = [pc EXCEPT ![t] = "user"] /\ Linked(t)
        /\ futex_waiters' = futex_remove(futex_waiters, t)
    BY <1>4 DEF Finish, Linked
  <2>2. Injective(futex_waiters')
        /\ \A x : Holds(futex_waiters', x) <=> Holds(futex_waiters, x) /\ x # t
    BY <1>1, <2>1, RemoveWaiter DEF TypeOK, ListInv
  <2>3. \A s \in Thread : Linked(s)' <=> Linked(s) /\ s # t
    BY <1>1, <2>1 DEF TypeOK, Linked
  <2> QED BY <1>1, <2>2, <2>3 DEF ListInv
<1>5. ASSUME NEW t \in Thread, Test(t) \/ Sleep(t) \/ Resume(t) PROVE ListInv'
  BY <1>1, <1>2, <1>5 DEF Test, Sleep, Resume, waiterVars, TypeOK, Linked
<1>6. ASSUME NEW t \in Thread, NEW a \in Addr, NEW e \in Value, NEW timed \in BOOLEAN,
             FutexWait(t, a, e, timed)
      PROVE  ListInv'
  BY <1>1, <1>2, <1>6 DEF FutexWait, waiterVars, TypeOK, Linked, Idle
<1>7. CASE UNCHANGED << pc, futex_waiters >>
  BY <1>2, <1>7 DEF Linked
<1>8. ASSUME NEW t \in Thread,
             \/ \E a \in Addr, v \in Value : Store(t, a, v)
             \/ \E a \in Addr, all \in BOOLEAN : FutexWake(t, a, all)
             \/ FutexTimeout(t) \/ Signal(t) \/ Deliver(t)
      PROVE  ListInv'
  BY <1>7, <1>8 DEF Store, FutexWake, FutexTimeout, Signal, Deliver, waiterVars
<1>9. CASE UNCHANGED vars
  BY <1>7, <1>9 DEF vars, waiterVars
<1> QED BY <1>3, <1>4, <1>5, <1>6, <1>8, <1>9 DEF Next, WaitStep

\* No step loses a wakeup.
LEMMA WakeStep == IInv /\ [Next]_vars => NoLostWake'
<1> SUFFICES ASSUME IInv, [Next]_vars PROVE NoLostWake'
  OBVIOUS
<1>1. TypeOK /\ KernInv /\ WaiterInv /\ NoLostWake
  BY DEF IInv
\* Whoever is blocked after a step that changes neither memory nor debts was so
\* before, waiting on the same word.
<1>2. ASSUME UNCHANGED userVars,
             \A w \in Thread : Blocked(w)' => Blocked(w) /\ arg'[w] = arg[w]
      PROVE  NoLostWake'
  <2>1. ASSUME NEW w \in Thread, Blocked(w)'
        PROVE  \/ word'[as[w]][arg'[w].uaddr] = arg'[w].expected
               \/ \E s \in Thread : as[s] = as[w] /\ owes'[s] = arg'[w].uaddr
    <3>1. Blocked(w) /\ arg'[w] = arg[w] /\ word' = word /\ owes' = owes
      BY <1>2, <2>1 DEF userVars
    <3>2. \/ word[as[w]][arg[w].uaddr] = arg[w].expected
          \/ \E s \in Thread : as[s] = as[w] /\ owes[s] = arg[w].uaddr
      BY <1>1, <3>1 DEF NoLostWake
    <3> QED BY <3>1, <3>2
  <2> QED BY <2>1 DEF NoLostWake
<1>3. ASSUME NEW t \in Thread, NEW a \in Addr, NEW v \in Value, Store(t, a, v)
      PROVE  NoLostWake'
  <2>1. \A w \in Thread : /\ Blocked(w)' <=> Blocked(w)
                          /\ arg' = arg /\ arg[w].uaddr \in Addr /\ as[w] \in Space
    BY <1>1, <1>3, FutexAssumption
       DEF Store, waiterVars, Blocked, Linked, TypeOK, Request, FutexAssumption
  <2>2. \A w \in Thread : as[w] # as[t] \/ arg[w].uaddr # a
            => word'[as[w]][arg[w].uaddr] = word[as[w]][arg[w].uaddr]
    BY <1>1, <1>3, <2>1 DEF Store, TypeOK
  <2>3. owes'[t] = a /\ \A s \in Thread : owes[s] # NoAddr => owes'[s] = owes[s]
    BY <1>1, <1>3 DEF Store, TypeOK
  <2>4. \A w \in Thread : arg[w].uaddr # NoAddr
    BY <2>1, FutexAssumption DEF FutexAssumption
  <2>5. ASSUME NEW w \in Thread, Blocked(w)'
        PROVE  \/ word'[as[w]][arg'[w].uaddr] = arg'[w].expected
               \/ \E s \in Thread : as[s] = as[w] /\ owes'[s] = arg'[w].uaddr
    <3>1. \/ word[as[w]][arg[w].uaddr] = arg[w].expected
          \/ \E s \in Thread : as[s] = as[w] /\ owes[s] = arg[w].uaddr
      BY <1>1, <2>1, <2>5 DEF NoLostWake
    <3>2. CASE as[w] = as[t] /\ arg[w].uaddr = a
      BY <2>1, <2>3, <3>2
    <3>3. CASE as[w] # as[t] \/ arg[w].uaddr # a
      BY <2>1, <2>2, <2>3, <2>4, <3>1, <3>3
    <3> QED BY <3>2, <3>3
  <2> QED BY <2>5 DEF NoLostWake
<1>4. ASSUME NEW t \in Thread, NEW a \in Addr, NEW all \in BOOLEAN, FutexWake(t, a, all)
      PROVE  NoLostWake'
  <2>1. /\ word' = word /\ arg' = arg /\ pc' = pc /\ timed_out' = timed_out
        /\ woken' = woken \cup Hits(t, a, all)
        /\ owes' = [owes EXCEPT ![t] = NoAddr]
        /\ \/ owes[t] = NoAddr
           \/ (owes[t] = a /\ all)
    BY <1>4 DEF FutexWake
  <2>2. \A w \in Thread : Blocked(w)' => Blocked(w) /\ w \notin Hits(t, a, all)
    BY <2>1 DEF Blocked, Linked
  <2>3. ASSUME NEW w \in Thread, Blocked(w)', word'[as[w]][arg'[w].uaddr] # arg'[w].expected
        PROVE  \E s \in Thread : as[s] = as[w] /\ owes'[s] = arg'[w].uaddr
    <3>1. PICK s \in Thread : as[s] = as[w] /\ owes[s] = arg[w].uaddr
      BY <1>1, <2>1, <2>2, <2>3 DEF NoLostWake
    <3>2. arg[w].uaddr # NoAddr
      BY <1>1, FutexAssumption DEF TypeOK, Request, FutexAssumption
    <3>3. s # t
      <4> SUFFICES ASSUME s = t PROVE FALSE
        OBVIOUS
      <4>1. all /\ arg[w].uaddr = a /\ as[w] = as[t]
        BY <2>1, <3>1, <3>2
      <4>2. Linked(w) /\ Matches(w, t, a)
        BY <2>2, <2>3, <4>1 DEF Blocked, Matches
      <4> QED BY <2>2, <2>3, <4>1, <4>2, HitsAre
    <3> QED BY <1>1, <2>1, <3>1, <3>3 DEF TypeOK
  <2> QED BY <2>3 DEF NoLostWake
<1>5. ASSUME NEW t \in Thread, Enqueue(t) PROVE NoLostWake'
  <2>1. UNCHANGED << userVars, arg, woken, timed_out >>
    BY <1>5 DEF Enqueue
  <2>2. \A w \in Thread \ {t} : Blocked(w)' <=> Blocked(w)
    BY <1>1, <1>5, <2>1 DEF Enqueue, TypeOK, Blocked, Linked
  <2>3. Blocked(t)' => Unchanged(t)
    BY <1>1, <1>5 DEF Enqueue, TypeOK, Blocked, Linked
  <2> QED BY <1>1, <2>1, <2>2, <2>3 DEF NoLostWake, userVars, Unchanged, Blocked, Linked
<1>6. ASSUME NEW t \in Thread, Test(t) \/ Sleep(t) \/ Resume(t) \/ Finish(t)
      PROVE  NoLostWake'
  <2>1. UNCHANGED << userVars, arg >>
    BY <1>6 DEF Test, Sleep, Resume, Finish
  <2>2. \A w \in Thread : Blocked(w)' => Blocked(w)
    <3>1. CASE Finish(t)
      BY <1>1, <3>1 DEF Finish, TypeOK, Blocked, Linked
    <3>2. CASE Test(t) \/ Sleep(t) \/ Resume(t)
      BY <1>1, <3>2 DEF Test, Sleep, Resume, waiterVars, TypeOK, Blocked, Linked
    <3> QED BY <1>6, <3>1, <3>2
  <2> QED BY <1>2, <2>1, <2>2
<1>7. ASSUME NEW t \in Thread, NEW a \in Addr, NEW e \in Value, NEW timed \in BOOLEAN,
             FutexWait(t, a, e, timed)
      PROVE  NoLostWake'
  <2>1. /\ UNCHANGED << userVars, waiterVars >>
        /\ \A w \in Thread \ {t} : pc'[w] = pc[w] /\ arg'[w] = arg[w]
        /\ pc'[t] = "enter"
    BY <1>1, <1>7 DEF FutexWait, TypeOK
  <2>2. ~ Blocked(t)'
    BY <2>1 DEF Blocked, Linked
  <2>3. \A w \in Thread \ {t} : Blocked(w)' <=> Blocked(w)
    BY <2>1 DEF Blocked, Linked, waiterVars
  <2> QED BY <1>2, <2>1, <2>2, <2>3 DEF Blocked, Linked
<1>8. ASSUME NEW t \in Thread, FutexTimeout(t) \/ Signal(t) \/ Deliver(t)
      PROVE  NoLostWake'
  <2>1. UNCHANGED << userVars, arg, pc, woken >> /\ timed_out \subseteq timed_out'
    BY <1>8 DEF FutexTimeout, Signal, Deliver, waiterVars
  <2> QED BY <1>2, <2>1 DEF Blocked, Linked
<1>9. CASE UNCHANGED vars
  BY <1>2, <1>9 DEF vars, userVars, waiterVars, Blocked, Linked
<1> QED BY <1>3, <1>4, <1>5, <1>6, <1>7, <1>8, <1>9 DEF Next, WaitStep

-----------------------------------------------------------------------------
(***************************************************************************)
(* The invariant, and what it implies.                                     *)
(***************************************************************************)

\* The invariant is one.
THEOREM Invariance == Spec => []IInv
<1>1. Init => IInv
  BY InitIInv
<1>2. IInv /\ [Next]_vars => IInv'
  BY TypeStep, PlaceStep, ListStep, WakeStep DEF IInv
<1> QED BY <1>1, <1>2, PTL DEF Spec

\* Every variable keeps its type; a waiter has one callout at most.
THEOREM TypeCorrect == Spec => []TypeOK
<1>1. IInv => TypeOK
  BY DEF IInv
<1> QED BY <1>1, Invariance, PTL

\* The list futex_wake() walks holds no waiter that was freed.
THEOREM WaitersListed == Spec => []ListSound
<1>1. IInv => ListSound
  BY DEF IInv, ListInv, ListSound, Injective, Holds
<1> QED BY <1>1, Invariance, PTL

\* futex_timeout() is never called with a waiter that was freed.
THEOREM CalloutsLive == Spec => []CalloutSound
<1>1. IInv => CalloutSound
  BY DEF IInv, CalloutInv, CalloutSound
<1> QED BY <1>1, Invariance, PTL

\* A thread that waits for a word to change has not missed its wakeup.
THEOREM WakeupsKept == Spec => []NoLostWake
<1>1. IInv => NoLostWake
  BY DEF IInv
<1> QED BY <1>1, Invariance, PTL

-----------------------------------------------------------------------------
(***************************************************************************)
(* The refinement: which step of FutexPromise each step is.                *)
(***************************************************************************)
BlockedSet == {t \in Thread : Blocked(t)}
Waiters == {Waiter(t) : t \in BlockedSet}

\* A step that changes neither who is blocked nor memory is a stutter.
LEMMA Stutter ==
    ASSUME word' = word, BlockedSet' = BlockedSet,
           \A t \in BlockedSet : arg'[t] = arg[t]
    PROVE  UNCHANGED << word, Waiters >>
BY DEF Waiters, Waiter

\* Those released leave the set of the blocked.
LEMMA Release ==
    ASSUME NEW R, arg' = arg, BlockedSet' = BlockedSet \ R
    PROVE  Waiters' = {b \in Waiters : b.thread \notin R}
BY DEF Waiters, Waiter

\* futex_wake() releases the blocked ones it hits.
LEMMA WakeReleases ==
    ASSUME NEW t \in Thread, NEW a \in Addr, NEW all \in BOOLEAN, FutexWake(t, a, all)
    PROVE  /\ word' = word /\ arg' = arg
           /\ BlockedSet' = BlockedSet \ Hits(t, a, all)
BY DEF FutexWake, BlockedSet, Blocked, Linked

\* A wake of one hits one waiter or none.
LEMMA HitsOne ==
    ASSUME NEW t \in Thread, NEW a \in Addr, IInv
    PROVE  \A v, w \in Hits(t, a, FALSE) : v = w
<1>1. Len(futex_waiters) \in Nat /\ DOMAIN futex_waiters = 1 .. Len(futex_waiters)
  BY LenProperties DEF IInv, TypeOK
<1> SUFFICES ASSUME NEW i \in DOMAIN futex_waiters, NEW j \in DOMAIN futex_waiters,
                    Matches(futex_waiters[i], t, a), Matches(futex_waiters[j], t, a),
                    \A n \in 1 .. i - 1 : ~ Matches(futex_waiters[n], t, a),
                    \A n \in 1 .. j - 1 : ~ Matches(futex_waiters[n], t, a)
             PROVE  futex_waiters[i] = futex_waiters[j]
  BY DEF Hits
<1>2. ~ i < j /\ ~ j < i
  BY <1>1
<1> QED BY <1>1, <1>2

\* A wake of one hits a waiter if there is one to hit.
LEMMA HitsSome ==
    ASSUME NEW t \in Thread, NEW a \in Addr, IInv,
           NEW w \in Thread, Linked(w), Matches(w, t, a)
    PROVE  Hits(t, a, FALSE) # {}
<1> DEFINE T == {i \in DOMAIN futex_waiters : Matches(futex_waiters[i], t, a)}
<1>1. Len(futex_waiters) \in Nat /\ DOMAIN futex_waiters = 1 .. Len(futex_waiters)
  BY LenProperties DEF IInv, TypeOK
<1>2. T # {}
  BY DEF IInv, ListInv, Holds
<1>3. PICK i \in T : \A j \in T : i <= j
  <2>1. T \in SUBSET Nat
    BY <1>1
  <2> HIDE DEF T
  <2> QED BY <1>2, <2>1, Least
<1>4. \A j \in 1 .. i - 1 : ~ Matches(futex_waiters[j], t, a)
  <2>1. \A j \in 1 .. i - 1 : j \in DOMAIN futex_waiters /\ ~ i <= j
    BY <1>1
  <2> QED BY <1>3, <2>1
<1>5. futex_waiters[i] \in Hits(t, a, FALSE)
  BY <1>1, <1>4 DEF Hits
<1> QED BY <1>5

\* A thread in user mode, or before its comparison, is not among the blocked.
LEMMA CallerFree ==
    ASSUME NEW t \in Thread, pc[t] \in {"user", "enter"}
    PROVE  Promise!Free(t)
BY DEF Promise!Free, Waiter, Blocked, Linked

\* A step that changes neither who is blocked nor memory shows nothing.
LEMMA StillIs ==
    ASSUME word' = word, BlockedSet' = BlockedSet,
           \A t \in BlockedSet : arg'[t] = arg[t]
    PROVE  Promise!Still
BY Stutter DEF Promise!Still, Promise!vars, Waiters, BlockedSet

\* Who blocks becomes one more of the blocked.
LEMMA EnqueueStep ==
    ASSUME IInv, NEW t \in Thread, Enqueue(t)
    PROVE  EnqueueAsCalled(t)
<1>1. TypeOK /\ KernInv /\ WaiterInv /\ CalloutInv
  BY DEF IInv
<1>2. word' = word /\ arg' = arg /\ pc[t] = "enter" /\ t \notin BlockedSet
  BY DEF Enqueue, userVars, BlockedSet, Blocked, Linked
<1>3. CASE Unchanged(t)
  <2>1. BlockedSet' = BlockedSet \cup {t}
    BY <1>1, <1>2, <1>3
       DEF Enqueue, TypeOK, WaiterInv, BlockedSet, Blocked, Linked
  <2>2. Waiters' = Waiters \cup {Waiter(t)}
    BY <1>2, <2>1 DEF Waiters, Waiter
  <2>3. Promise!Free(t)
    BY <1>2, CallerFree
  <2>4. Promise!Block(t, arg[t].uaddr, arg[t].expected, arg[t].timed)
    BY <1>2, <1>3, <2>2, <2>3
       DEF Promise!Block, Unchanged, Waiters, Waiter, BlockedSet
  <2> QED BY <1>3, <2>4 DEF EnqueueAsCalled, Unchanged
<1>4. CASE ~ Unchanged(t)
  <2>1. BlockedSet' = BlockedSet
    BY <1>1, <1>2, <1>4 DEF Enqueue, TypeOK, BlockedSet, Blocked, Linked
  <2>2. Promise!Still
    BY <1>2, <2>1, StillIs
  <2> QED BY <1>4, <2>2 DEF EnqueueAsCalled, Unchanged
<1> QED BY <1>3, <1>4

\* futex_wake() takes those it hits, and no other, out of the blocked.
LEMMA WakeTakes ==
    ASSUME IInv, NEW t \in Thread, NEW a \in Addr, NEW all \in BOOLEAN, FutexWake(t, a, all)
    PROVE  /\ word' = word
           /\ Waiters' = {b \in Waiters : b.thread \notin Hits(t, a, all)}
           /\ Promise!Free(t)
           /\ Hits(t, a, all) \subseteq Thread
           /\ \A w \in Hits(t, a, all) : Linked(w) /\ Matches(w, t, a)
<1>1. /\ word' = word /\ arg' = arg /\ BlockedSet' = BlockedSet \ Hits(t, a, all)
  BY WakeReleases
<1>2. Waiters' = {b \in Waiters : b.thread \notin Hits(t, a, all)}
  BY <1>1, Release
<1>3. Promise!Free(t)
  BY CallerFree DEF FutexWake, Idle
<1> QED BY <1>1, <1>2, <1>3, HitsAre

\* A wake of all releases everyone blocked on the word in the caller's space.
LEMMA WakeAllStep ==
    ASSUME IInv, NEW t \in Thread, NEW a \in Addr, FutexWake(t, a, TRUE)
    PROVE  Promise!WakeAll(t, a)
<1> DEFINE hits == Hits(t, a, TRUE)
<1>1. /\ word' = word /\ Waiters' = {b \in Waiters : b.thread \notin hits}
      /\ Promise!Free(t)
      /\ \A w \in hits : Linked(w) /\ Matches(w, t, a)
      /\ \A w \in Thread : Linked(w) /\ Matches(w, t, a) => w \in hits
  BY WakeTakes, HitsAre
<1> HIDE DEF hits
<1>2. ASSUME NEW b \in Waiters
      PROVE  b.thread \in hits <=> as[b.thread] = as[t] /\ b.uaddr = a
  <2>1. PICK w \in BlockedSet : b = Waiter(w)
    BY DEF Waiters
  <2>2. b.thread = w /\ b.uaddr = arg[w].uaddr
    BY <2>1 DEF Waiter
  <2>3. w \in Thread /\ Linked(w) /\ w \notin woken
    BY DEF BlockedSet, Blocked
  <2>4. as[w] = as[t] /\ arg[w].uaddr = a => w \in hits
    BY <1>1, <2>3 DEF Matches
  <2>5. w \in hits => as[w] = as[t] /\ arg[w].uaddr = a
    BY <1>1 DEF Matches
  <2> QED BY <2>2, <2>4, <2>5
<1>3. Waiters' = Waiters \ {b \in Waiters : as[b.thread] = as[t] /\ b.uaddr = a}
  BY <1>1, <1>2
<1> QED
  BY <1>1, <1>3 DEF Promise!WakeAll, Promise!Waiting, Waiters, BlockedSet

\* A wake of one releases one thread blocked on the word in the caller's space,
\* unless nobody is, or the waiter it finds has had its timeout.
LEMMA WakeOneStep ==
    ASSUME IInv, NEW t \in Thread, NEW a \in Addr, FutexWake(t, a, FALSE)
    PROVE  \/ Promise!WakeOne(t, a)
           \/ Promise!Still /\ (Promise!Waiting(t, a) = {} \/ Late(t, a))
<1> DEFINE hits == Hits(t, a, FALSE)
<1>1. /\ word' = word /\ Waiters' = {b \in Waiters : b.thread \notin hits}
      /\ Promise!Free(t) /\ hits \subseteq Thread
      /\ \A w \in hits : Linked(w) /\ Matches(w, t, a)
      /\ \A v, w \in hits : v = w
  BY WakeTakes, HitsOne
<1>2. (\E w \in Thread : Linked(w) /\ Matches(w, t, a)) => hits # {}
  BY HitsSome
<1> HIDE DEF hits
<1>3. CASE \E w \in hits : w \in BlockedSet
  <2>1. PICK w \in hits : w \in BlockedSet
    BY <1>3
  <2>2. /\ Waiter(w) \in Waiters /\ as[Waiter(w).thread] = as[t] /\ Waiter(w).uaddr = a
        /\ Waiter(w).thread = w
    BY <1>1, <2>1 DEF Waiters, Waiter, Matches
  <2>3. \A b \in Waiters : b.thread = w => b = Waiter(w)
    BY DEF Waiters, Waiter
  <2>4. Waiters' = Waiters \ {Waiter(w)}
    BY <1>1, <2>1, <2>2, <2>3
  <2>5. Promise!WakeOne(t, a)
    BY <1>1, <2>2, <2>4 DEF Promise!WakeOne, Promise!Waiting, Waiters, BlockedSet
  <2> QED BY <2>5
<1>4. CASE ~ \E w \in hits : w \in BlockedSet
  <2>1. Promise!Still
    <3>1. \A b \in Waiters : b.thread \in BlockedSet
      BY DEF Waiters, Waiter
    <3>2. Waiters' = Waiters
      BY <1>1, <1>4, <3>1
    <3> QED BY <1>1, <3>2 DEF Promise!Still, Promise!vars, Waiters, BlockedSet
  <2>2. CASE hits = {}
    <3>1. Promise!Waiting(t, a) = {}
      <4> SUFFICES ASSUME NEW b \in Waiters, as[b.thread] = as[t], b.uaddr = a
                   PROVE  FALSE
        BY DEF Promise!Waiting, Waiters, BlockedSet
      <4>1. PICK w \in BlockedSet : b = Waiter(w)
        BY DEF Waiters
      <4>2. w \in Thread /\ Linked(w) /\ w \notin woken
        BY DEF BlockedSet, Blocked
      <4>3. b.thread = w /\ b.uaddr = arg[w].uaddr
        BY <4>1 DEF Waiter
      <4> QED BY <1>2, <2>2, <4>2, <4>3 DEF Matches
    <3> QED BY <2>1, <3>1
  <2>3. CASE hits # {}
    <3>1. PICK w \in hits : TRUE
      BY <2>3
    <3>2. /\ w \in Thread /\ w \notin BlockedSet /\ Linked(w) /\ w \notin woken
          /\ as[w] = as[t] /\ arg[w].uaddr = a
      BY <1>1, <1>4, <3>1 DEF Matches
    <3>3. w \in timed_out
      BY <3>2 DEF BlockedSet, Blocked, IInv, WaiterInv
    <3> QED BY <2>1, <3>2, <3>3 DEF Late
  <2> QED BY <2>2, <2>3
<1> QED BY <1>3, <1>4

\* A timeout releases its own thread, unless a wake has.
LEMMA TimeoutStep ==
    ASSUME IInv, NEW t \in Thread, FutexTimeout(t)
    PROVE  IF t \in woken THEN Promise!Still ELSE Promise!Expire(Waiter(t))
<1>1. word' = word /\ arg' = arg
  BY DEF FutexTimeout, userVars
<1>2. CASE t \in woken
  <2>1. BlockedSet' = BlockedSet
    BY <1>2 DEF FutexTimeout, BlockedSet, Blocked, Linked
  <2> QED BY <1>1, <1>2, <2>1, StillIs
<1>3. CASE t \notin woken
  <2>1. t \in BlockedSet /\ arg[t].timed
    BY <1>3 DEF IInv, FutexTimeout, CalloutInv, WaiterInv, BlockedSet, Blocked
  <2>2. BlockedSet' = BlockedSet \ {t}
    BY <1>3 DEF FutexTimeout, BlockedSet, Blocked, Linked
  <2>3. Waiters' = {b \in Waiters : b.thread \notin {t}}
    BY <1>1, <2>2, Release
  <2>4. Waiter(t) \in Waiters
    BY <2>1 DEF Waiters
  <2>5. Waiter(t).timed = arg[t].timed /\ Waiter(t).thread = t
    BY DEF Waiter
  <2>6. \A b \in Waiters : b.thread = t => b = Waiter(t)
    BY DEF Waiters, Waiter
  <2>7. Waiters' = Waiters \ {Waiter(t)}
    BY <2>3, <2>4, <2>5, <2>6
  <2>8. Promise!Expire(Waiter(t))
    BY <1>1, <2>1, <2>5, <2>7 DEF Promise!Expire, Waiters, BlockedSet
  <2> QED BY <1>3, <2>8
<1> QED BY <1>2, <1>3

\* Every step is the operation its caller asked for.
LEMMA StepAsCalled == IInv => AsCalled
<1> SUFFICES ASSUME IInv, NEW t \in Thread
             PROVE  AsCalled!(t)
  BY DEF AsCalled
<1>1. TypeOK /\ KernInv /\ WaiterInv /\ CalloutInv
  BY DEF IInv
<1>2. ASSUME NEW a \in Addr, NEW v \in Value, Store(t, a, v)
      PROVE  Promise!Store(t, a, v)
  <2>1. word' = [word EXCEPT ![as[t]][a] = v] /\ arg' = arg /\ BlockedSet' = BlockedSet
    BY <1>2 DEF Store, waiterVars, BlockedSet, Blocked, Linked
  <2>2. Promise!Free(t)
    BY <1>2, CallerFree DEF Store, Idle
  <2> QED BY <2>1, <2>2 DEF Promise!Store, Waiters, Waiter, BlockedSet
<1>3. ASSUME NEW a \in Addr, NEW e \in Value, NEW timed \in BOOLEAN,
             FutexWait(t, a, e, timed)
      PROVE  Promise!Still
  <2>1. word' = word /\ BlockedSet' = BlockedSet
    BY <1>1, <1>3
       DEF FutexWait, Idle, userVars, waiterVars, TypeOK, BlockedSet, Blocked, Linked
  <2>2. \A w \in BlockedSet : arg'[w] = arg[w]
    BY <1>1, <1>3 DEF FutexWait, Idle, TypeOK, BlockedSet, Blocked, Linked
  <2> QED BY <2>1, <2>2, StillIs
<1>4. ASSUME Test(t) \/ Sleep(t) \/ Resume(t) \/ Finish(t) \/ Signal(t) \/ Deliver(t)
      PROVE  Promise!Still
  <2>1. word' = word /\ arg' = arg
    BY <1>4 DEF Test, Sleep, Resume, Finish, Signal, Deliver, userVars
  <2>2. BlockedSet' = BlockedSet
    <3>1. CASE Test(t)
      BY <1>1, <3>1 DEF Test, waiterVars, TypeOK, BlockedSet, Blocked, Linked
    <3>2. CASE Sleep(t)
      BY <1>1, <3>2, NeverCaught
         DEF Sleep, Caught, waiterVars, TypeOK, BlockedSet, Blocked, Linked
    <3>3. CASE Resume(t)
      BY <1>1, <3>3, NeverCaught
         DEF Resume, Caught, waiterVars, TypeOK, BlockedSet, Blocked, Linked
    <3>4. CASE Finish(t)
      BY <1>1, <3>4 DEF Finish, WaiterInv, TypeOK, BlockedSet, Blocked, Linked
    <3>5. CASE Signal(t) \/ Deliver(t)
      BY <3>5 DEF Signal, Deliver, waiterVars, BlockedSet, Blocked, Linked
    <3> QED BY <1>4, <3>1, <3>2, <3>3, <3>4, <3>5
  <2> QED BY <2>1, <2>2, StillIs
<1> QED BY <1>2, <1>3, <1>4, EnqueueStep, WakeAllStep, WakeOneStep, TimeoutStep

\* Every step of Futex is a step of FutexPromise or a stutter.
LEMMA StepRefines == IInv /\ [Next]_vars => [Promise!Next]_Promise!vars
<1> SUFFICES ASSUME IInv, [Next]_vars
             PROVE  Promise!Next \/ Promise!Still
  BY DEF Promise!Still
<1>1. TypeOK /\ WaiterInv /\ CalloutInv
  BY DEF IInv
<1>2. CASE UNCHANGED vars
  <2>1. word' = word /\ arg' = arg /\ BlockedSet' = BlockedSet
    BY <1>2 DEF vars, userVars, waiterVars, BlockedSet, Blocked, Linked
  <2> QED BY <2>1, StillIs
<1>3. ASSUME NEW t \in Thread, Enqueue(t)
      PROVE  Promise!Next \/ Promise!Still
  <2>1. /\ arg[t].uaddr \in Addr /\ arg[t].expected \in Value /\ arg[t].timed \in BOOLEAN
    BY <1>1 DEF TypeOK, Request
  <2>2. EnqueueAsCalled(t)
    BY <1>3, EnqueueStep
  <2> QED BY <2>1, <2>2 DEF EnqueueAsCalled, Promise!Next
<1>4. ASSUME NEW t \in Thread, FutexTimeout(t)
      PROVE  Promise!Next \/ Promise!Still
  <2>1. CASE t \in woken
    BY <1>4, <2>1, TimeoutStep
  <2>2. CASE t \notin woken
    <3>1. t \in BlockedSet
      BY <1>1, <1>4, <2>2 DEF FutexTimeout, CalloutInv, BlockedSet, Blocked, WaiterInv
    <3>2. Promise!Expire(Waiter(t))
      BY <1>4, <2>2, TimeoutStep
    <3> QED BY <3>1, <3>2 DEF Promise!Next, BlockedSet
  <2> QED BY <2>1, <2>2
<1>5. ASSUME NEW t \in Thread, NEW a \in Addr, NEW all \in BOOLEAN, FutexWake(t, a, all)
      PROVE  Promise!Next \/ Promise!Still
  <2>1. CASE all = TRUE
    BY <1>5, <2>1, WakeAllStep DEF Promise!Next
  <2>2. CASE all = FALSE
    BY <1>5, <2>2, WakeOneStep DEF Promise!Next
  <2> QED BY <2>1, <2>2
<1>6. ASSUME NEW t \in Thread, NEW a \in Addr, NEW v \in Value, Store(t, a, v)
      PROVE  Promise!Next
  <2>1. Promise!Store(t, a, v)
    BY <1>6, StepAsCalled DEF AsCalled
  <2> QED BY <2>1 DEF Promise!Next
<1>7. ASSUME NEW t \in Thread,
             \/ \E a \in Addr, e \in Value, timed \in BOOLEAN : FutexWait(t, a, e, timed)
             \/ Test(t) \/ Sleep(t) \/ Resume(t) \/ Finish(t) \/ Signal(t) \/ Deliver(t)
      PROVE  Promise!Still
  BY <1>7, StepAsCalled DEF AsCalled
<1> QED BY <1>2, <1>3, <1>4, <1>5, <1>6, <1>7 DEF Next, WaitStep

\* futex_wait() and futex_wake() keep what FutexPromise promises, each step as
\* its caller asked.
THEOREM Implements == Spec => KeepsPromise
<1>1. Init => Promise!Init
  BY DEF Init, Promise!Init, Blocked, Linked
<1>2. IInv /\ [Next]_vars => [Promise!Next]_Promise!vars
  BY StepRefines
<1>3. IInv /\ [Next]_vars => [AsCalled]_vars
  BY StepAsCalled
<1> QED BY <1>1, <1>2, <1>3, Invariance, PTL DEF Spec, KeepsPromise, Promise!Spec
=============================================================================
