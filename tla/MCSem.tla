--------------------------------- MODULE MCSem ---------------------------------
(* Small instances of Sem. *)
EXTENDS Sem, TLC

CONSTANTS p1, p2, k1, k2

op(num, v) == [num |-> num, op |-> v, undo |-> FALSE, nowait |-> FALSE]
undone(num, v) == [op(num, v) EXCEPT !.undo = TRUE]
nowait(num, v) == [op(num, v) EXCEPT !.nowait = TRUE]

\* V, the wait for zero that takes a lock with SEM_UNDO, a transfer with SEM_UNDO, a
\* P that waits for zero as well, and a V with a P that does not wait.
MCOpLists ==
    {<< op(0, 1) >>,
     << op(0, 0), undone(0, 1) >>,
     << undone(1, 1), undone(0, -1) >>,
     << op(0, -1), op(1, 0) >>,
     << op(0, 1), nowait(1, -1) >>}

\* The page faults: in the wait for zero, and in semctl().
MCFaults == {<< >>, << op(0, 0), undone(0, 1) >>}

MCSymmetry == Permutations(Proc) \cup Permutations(Key)
=============================================================================
