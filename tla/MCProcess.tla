----------------------------- MODULE MCProcess -----------------------------
\* Process.tla on a few proc structures.
EXTENDS Process, TLC

\* The structures other than that of process 1 are alike.
Alike == Permutations(Proc \ {proc_init})

=============================================================================
