----------------------------- MODULE DispQueue -----------------------------
(***************************************************************************)
(* The dispatcher queues of disp/disp.c as pure operators on one value.    *)
(*                                                                         *)
(* A queue state d is a record:                                            *)
(*   d.q[k]    the processes linked on dispq[k], front first               *)
(*   d.cnt[k]  dispq[k].dq_sruncnt, the schedulable ones among them        *)
(*   d.run     srunprocs, the schedulable ones on all the queues           *)
(*   d.act     dqactmap, the set of priorities whose bit is on             *)
(*   d.max     maxrunpri, the highest bit of dqactmap, or -1               *)
(*                                                                         *)
(* "Schedulable" (ok below) is the test of the process flags that every    *)
(* one of these routines makes: (SLOAD|SPROCIO) == SLOAD, or SSYS.         *)
(***************************************************************************)
EXTENDS Integers, Sequences, SequencesExt

CONSTANTS
    Proc,    \* the processes
    MaxPri   \* v.v_nglobpris - 1, the highest global priority

ASSUME MaxPriAssumption == MaxPri \in Nat

Pri == 0 .. MaxPri

Dispq == [q : [Pri -> Seq(Proc)], cnt : [Pri -> Int], run : Int,
          act : SUBSET Pri, max : Pri \cup {-1}]

\* The zeroed queues of dispinit(), once the processes of s, all of them
\* schedulable, have been linked at priority k.
dispinit(k, s) ==
    [q   |-> [m \in Pri |-> IF m = k THEN s ELSE << >>],
     cnt |-> [m \in Pri |-> IF m = k THEN Len(s) ELSE 0],
     run |-> Len(s),
     act |-> IF Len(s) = 0 THEN {} ELSE {k},
     max |-> IF Len(s) = 0 THEN -1 ELSE k]

\* bt_gethighbit() on a non-empty bitmap.
\* Seeded fault bt_getlowbit: the lowest bit.
bt_getlowbit(bits) == CHOOSE k \in bits : \A j \in bits : k <= j
bt_gethighbit(bits) == CHOOSE k \in bits : \A j \in bits : j <= k

OnQueue(d, p, k) == \E i \in DOMAIN d.q[k] : d.q[k][i] = p

dq_sruninc(d, k) ==
    LET first == d.cnt[k] = 0
    IN  [q   |-> d.q,
         cnt |-> [d.cnt EXCEPT ![k] = @ + 1],
         run |-> d.run + 1,
         act |-> IF first THEN d.act \cup {k} ELSE d.act,
         max |-> IF first /\ k > d.max THEN k ELSE d.max]

dq_srundec(d, k) ==
    LET last == d.cnt[k] = 1
        bits == d.act \ {k}
    IN  [q   |-> d.q,
         cnt |-> [d.cnt EXCEPT ![k] = @ - 1],
         run |-> d.run - 1,
         act |-> IF last THEN bits ELSE d.act,
         max |-> IF ~ last THEN d.max
                 ELSE IF d.run = 1 THEN -1
                 ELSE IF k = d.max THEN bt_gethighbit(bits)
                 ELSE d.max]

\* Seeded fault setbackdq_front: the process is linked at the front.
setbackdq_front(d, p, k, ok) ==
    LET e == [d EXCEPT !.q[k] = << p >> \o @]
    IN  IF ok THEN dq_sruninc(e, k) ELSE e
setbackdq(d, p, k, ok) ==
    LET e == [d EXCEPT !.q[k] = Append(@, p)]
    IN  IF ok THEN dq_sruninc(e, k) ELSE e

setfrontdq(d, p, k, ok) ==
    LET e == [d EXCEPT !.q[k] = << p >> \o @]
    IN  IF ok THEN dq_sruninc(e, k) ELSE e

\* The queue is searched at the priority p has now; the caller learns whether
\* p was found from OnQueue.
dispdeq(d, p, k, ok) ==
    LET i == CHOOSE n \in DOMAIN d.q[k] : d.q[k][n] = p
        e == [d EXCEPT !.q[k] = RemoveAt(@, i)]
    IN  IF ~ OnQueue(d, p, k) THEN d
        ELSE IF ok THEN dq_srundec(e, k)
        ELSE e

\* No process is linked twice.
Distinct(d) ==
    \A k, m \in Pri : \A i \in DOMAIN d.q[k], j \in DOMAIN d.q[m] :
        d.q[k][i] = d.q[m][j] => k = m /\ i = j

\* The counts and the bitmap agree with the queues and with ok, the set of
\* schedulable processes.
OnSome(d, p) == \E k \in Pri : OnQueue(d, p, k)
Counted(d, ok) ==
    /\ \A k \in Pri : /\ d.cnt[k] = Cardinality({p \in ok : OnQueue(d, p, k)})
                      /\ k \in d.act <=> d.cnt[k] > 0
    /\ d.run = Cardinality({p \in ok : OnSome(d, p)})
    /\ d.max = IF d.act = {} THEN -1 ELSE bt_gethighbit(d.act)

\* The process pswtch() takes: the first schedulable one on the queue of
\* maxrunpri.  ok is the set of schedulable processes.
\* Seeded fault IsFirst_any: the flags are not looked at.
IsFirst_any(d, ok, p) == d.q[d.max][1] = p
IsFirst(d, ok, p) ==
    \E i \in DOMAIN d.q[d.max] :
        /\ d.q[d.max][i] = p
        /\ p \in ok
        /\ \A j \in 1 .. i - 1 : d.q[d.max][j] \notin ok
=============================================================================
