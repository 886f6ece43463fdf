-------------------------------- MODULE FlockMap --------------------------------
(***************************************************************************)
(* What record locking promises: every byte of a file has, for each        *)
(* process, no lock, a read lock or a write lock, and a call gives the     *)
(* bytes it asks for the lock it asks for, unless the locks of others      *)
(* exclude that.  There are no lists and no sleepers here.                 *)
(***************************************************************************)
EXTENDS Integers

CONSTANTS Proc, File, MAXEND

VARIABLES
    locks,      \* file -> byte -> process -> "none", "rd" or "wr"
    result      \* of the last call, "ok" or "ENOLCK"

Byte == 0 .. MAXEND
Mode == {"none", "rd", "wr"}

\* What two processes may not have on one byte.
Conflict(t, u) == t # "none" /\ u # "none" /\ "wr" \in {t, u}

Init ==
    /\ locks = [f \in File |-> [b \in Byte |-> [p \in Proc |-> "none"]]]
    /\ result = "ok"

\* The bytes i to j of file f become t for p.
Becomes(old, new, p, f, t, i, j) ==
    \A g \in File, b \in Byte, q \in Proc :
        new[g][b][q] = IF g = f /\ q = p /\ b \in i .. j THEN t ELSE old[g][b][q]

\* No lock of others is in the way of t on the bytes i to j.
Free(old, p, f, t, i, j) ==
    \A b \in i .. j, q \in Proc \ {p} : ~Conflict(t, old[f][b][q])

\* They are locked or, with t = "none", unlocked.
Set(old, new, p, f, t, i, j) ==
    /\ result' = "ok"
    /\ Becomes(old, new, p, f, t, i, j)

\* There are too many locks.  The first of the bytes asked for may have lost
\* what lock the caller had there; the caller has the rest as it was.
Fail(old, new, p, f, i, j) ==
    /\ result' = "ENOLCK"
    /\ \E k \in i - 1 .. j : Becomes(old, new, p, f, "none", i, k)

\* p asks for t on the bytes i to j of file f.  Where a lock of another process
\* is in the way the call waits or fails, and nothing changes yet.
Call(p, f, t, i, j) ==
    LET old == locks
        new == locks'
    IN IF Free(old, p, f, t, i, j)
       THEN Set(old, new, p, f, t, i, j) \/ Fail(old, new, p, f, i, j)
       ELSE new = old

\* Nothing is asked of the locks.
Rest == locks' = locks

Next ==
    \/ Rest
    \/ \E p \in Proc, f \in File, t \in Mode, i \in Byte : \E j \in i .. MAXEND : Call(p, f, t, i, j)

Spec == Init /\ [][Next]_<< locks, result >>
=============================================================================
