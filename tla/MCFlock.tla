--------------------------------- MODULE MCFlock ---------------------------------
(* Small instances of Flock. *)
EXTENDS Flock, TLC

CONSTANTS p1, p2, p3

\* All there are, and, of two bytes, both or the second.
MCRanges == {<< i, j >> \in (0 .. MAXEND) \X (0 .. MAXEND) : i <= j}
MCRangesTwo == {<< 0, 1 >>, << 1, 1 >>}

MCSymmetry == Permutations(Proc)
=============================================================================
