--------------------------- MODULE DispatchOrder ---------------------------
(***************************************************************************)
(* Dispatch with a history variable: the pairs << p, q >> of processes     *)
(* that slept on one channel at one time, p since before q, where neither  *)
(* has had the processor since.                                            *)
(***************************************************************************)
EXTENDS Dispatch

VARIABLE ahead

hvars == << vars, ahead >>

HInit == Init /\ ahead = {}

Asleep(p) == p_wchan[p] # NoChan

\* q goes to sleep where p sleeps.
SleepsAfter(p, q) ==
    Asleep(p) /\ ~ Asleep(q) /\ p_wchan'[p] = p_wchan[p] /\ p_wchan'[q] = p_wchan[p]

HNext ==
    /\ Next
    /\ ahead' = {pq \in ahead \cup {pq \in Ts \X Ts : SleepsAfter(pq[1], pq[2])} :
                     \A i \in {1, 2} : p_stat'[pq[i]] # "SONPROC"}

HSpec == HInit /\ [][HNext]_hvars

Overtakes(p, q) == p_stat[q] # "SONPROC" /\ p_stat'[q] = "SONPROC" /\ << p, q >> \in ahead

\* Of those that slept on a channel and were woken, the first to run is the first
\* that went to sleep, but for one of higher priority or one in memory.
SleepOrderKept ==
    [][\A p, q \in Ts : Overtakes(p, q) /\ p_stat[p] = "SRUN" =>
           p_pri[q] > p_pri[p] \/ p \notin sload]_hvars
=============================================================================
