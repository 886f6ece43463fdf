------------------------------- MODULE MCFutex -------------------------------
(* Small instances of Futex: two or three threads, in one or two spaces. *)
EXTENDS FutexRefines

CONSTANTS t1, t2, t3, s1, s2, a1, a2

MCas == [t \in Thread |-> IF t = t3 THEN s2 ELSE s1]
MCasOne == [t \in Thread |-> s1]
=============================================================================
