----------------------------- MODULE MCDispatch -----------------------------
(***************************************************************************)
(* Small instances of Dispatch: two user levels of the time-sharing class  *)
(* and, above them, the priorities processes have after a sleep.  As in    *)
(* the system's tables the swap device's waiters and other PRIBIO sleepers *)
(* share a priority, and one that slept at PSWP is above all.              *)
(***************************************************************************)
EXTENDS Dispatch

CONSTANTS p1, p2, p3, io1, io2

MCTsList1 == << p1 >>
MCTsList2 == << p2, p1 >>
MCTsList3 == << p3, p2, p1 >>
MCsqhash == [c \in Chan |-> IF c \in {io1, RunOut, RunIn} THEN 0 ELSE 1]
MCTqExp == [u \in Umd |-> IF u = 0 THEN 0 ELSE u - 1]
MCSlpRet == [u \in Umd |-> MaxUmd]
MCLWait == [u \in Umd |-> MaxUmd]
MCQuantum == [u \in Umd |-> IF u = 0 THEN 2 ELSE 1]
MCMaxWait == [u \in Umd |-> 0]
MCKmdPri == [d \in Disp |-> IF d = "PSLEP" THEN 2 ELSE IF d = "PRIBIO" THEN 3 ELSE 4]
MCQuantumOne == [u \in Umd |-> 1]
MCMinUpri == -1
MCSysPri == MCKmdPri
=============================================================================
