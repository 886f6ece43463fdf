-------------------------- MODULE Process_proofs --------------------------
(***************************************************************************)
(* The tree of processes, what vfork() lends and who lives in which        *)
(* address space, for any number of processes.                             *)
(***************************************************************************)
EXTENDS Process, TLAPS

Kid(q) == q # proc_init /\ stat[q] # "none"
Kids == {q \in Proc : Kid(q)}
Grown(p) == stat[p] \in {"SRUN", "SSLEEP", "SSTOP"}
MayHaveKids(p) == Grown(p) /\ ~Is(p, "STHREAD")

\* Following f inside U ends.
Forest(f, U) == \A S \in SUBSET U : S # {} => \E q \in S : f[q] \notin S

\* TreeSound, with parents that have done their own start, that are no threads
\* and that form no circle.
Linked ==
  /\ \A q \in Proc : Kid(q) =>
       /\ parent[q] \in Proc /\ MayHaveKids(parent[q])
       /\ nextofkin[q] \in Proc /\ MayHaveKids(nextofkin[q])
  /\ \A p, q \in Proc : stat[p] # "none" =>
       /\ q \in child[p] <=> Kid(q) /\ parent[q] = p
       /\ q \in orphan[p] <=> Kid(q) /\ nextofkin[q] = p
  /\ Forest(parent, Kids)
  /\ Forest(nextofkin, Kids)

Relvm == {"relvm_exit", "relvm_exec"}

\* Where a process may be, given its p_stat, and what it sleeps on there.
Placed ==
  \A p \in Proc :
    /\ stat[p] \in {"none", "SIDL", "SZOMB"} => pc[p] = "user"
    /\ stat[p] = "SSTOP" => pc[p] \in {"user", "waitid"}
    /\ stat[p] = "SSLEEP" =>
         /\ pc[p] \in {"waitid", "exit_threads", "vfwait", "futex"} \cup Relvm
         /\ pc[p] = "waitid" => chan[p] = IF arg[p] = P_ALL THEN p ELSE arg[p]
         /\ pc[p] = "vfwait" => chan[p] = arg[p]
         /\ pc[p] = "futex" => chan[p] = WAITER
         /\ pc[p] \in {"exit_threads"} \cup Relvm => chan[p] = p
    /\ pc[p] = "waitid" => arg[p] # None
    /\ wcode[p] = "exited" => stat[p] = "SZOMB"
    /\ Is(p, "STHREAD") =>
         /\ pc[p] \in {"user", "waitid", "thread_exit", "futex"}
         /\ stat[p] \notin {"none", "SZOMB"}
         /\ ~Is(p, "SVFORK")
         /\ p # proc_init
    /\ pc[p] = "thread_exit" => Is(p, "STHREAD")

\* Process 1 is never traced, lent an address space or on its way out.
FirstPlaced ==
  /\ stat[proc_init] \in {"SRUN", "SSLEEP"}
  /\ flag[proc_init] \subseteq {"SNOWAIT"}
  /\ pc[proc_init] \in {"user", "procdup", "vfwait", "waitid", "futex"}

\* A child that is not ready, and the parent that makes it.
Duplicating ==
  /\ \A p \in Proc : pc[p] = "procdup" =>
       arg[p] \in Proc /\ stat[arg[p]] = "SIDL" /\ parent[arg[p]] = p
  /\ \A c \in Proc : stat[c] = "SIDL" =>
       pc[parent[c]] = "procdup" /\ arg[parent[c]] = c

\* VforkHeld, with the same seen from the parent.
Borrows(c) == Is(c, "SVFORK") \/ (pc[c] \in Relvm /\ ~Is(c, "SVFDONE"))
Lent ==
  /\ \A c \in Proc : Borrows(c) =>
       /\ stat[c] \notin {"none", "SZOMB"}
       /\ c # proc_init
       /\ pc[parent[c]] \in {"procdup", "vfwait"}
       /\ arg[parent[c]] = c
  /\ \A p \in Proc : pc[p] = "vfwait" =>
       arg[p] \in Proc /\ Grown(arg[p]) /\ parent[arg[p]] = p /\ Borrows(arg[p])
  /\ \A c \in Proc : Is(c, "SVFDONE") => pc[c] \in Relvm
  /\ \A c \in Proc : Is(c, "SVFORK") => pc[c] \notin Relvm \cup {"exit_last"}

\* SpacesSound, with who has an address space and whose.
Housed ==
  /\ \A s \in Space : s \in spaces <=> \E p \in Proc : Grown(p) /\ space[p] = s
  /\ \A p, q \in Proc :
       /\ Grown(p) /\ Grown(q) /\ p # q
       /\ space[p] = space[q] /\ space[p] # None
       /\ ~Is(p, "STHREAD") /\ ~Is(q, "STHREAD")
     => Is(p, "SVFORK") \/ Is(q, "SVFORK")
  /\ \A p \in Proc : Grown(p) =>
       /\ space[p] = None <=> pc[p] \in Relvm \cup {"exit_last"}
       /\ Is(p, "STHREAD") \/ Is(p, "SVFORK") => space[p] = space[parent[p]]
  /\ \A q \in Proc : Is(q, "STHREAD") => pc[parent[q]] \notin Relvm \cup {"exit", "exit_last"}

\* NoLostWait, place by place.
Awaiting ==
  \A p \in Proc : stat[p] = "SSLEEP" =>
    /\ pc[p] = "waitid" =>
         \A c \in Proc : c \in child[p] /\ ~Is(c, "STHREAD") /\ arg[p] \in {P_ALL, c}
                        => wcode[c] # "exited"
    /\ pc[p] = "exit_threads" => \E q \in Proc : q \in child[p] /\ Is(q, "STHREAD")
    /\ pc[p] = "vfwait" => Is(arg[p], "SVFORK")
    /\ pc[p] \in Relvm => ~Is(p, "SVFDONE")

IInv ==
  /\ TypeOK /\ Linked /\ Placed /\ FirstPlaced
  /\ Duplicating /\ Lent /\ Housed /\ Awaiting

-----------------------------------------------------------------------------
(* Circles.                                                                *)

LEMMA ForestSub ==
  ASSUME NEW f, NEW U, NEW g, NEW V, V \subseteq U, Forest(f, U),
         \A q \in V : g[q] = f[q]
  PROVE  Forest(g, V)
BY DEF Forest

LEMMA ForestAdd ==
  ASSUME NEW f, NEW U, NEW g, NEW c, Forest(f, U), c \notin U, g[c] # c,
         \A q \in U : g[q] = f[q] /\ f[q] # c
  PROVE  Forest(g, U \cup {c})
<1> SUFFICES ASSUME NEW S \in SUBSET (U \cup {c}), S # {} PROVE \E q \in S : g[q] \notin S
  BY DEF Forest
<1>1. CASE S = {c}
  BY <1>1
<1>2. CASE S # {c}
  <2>1. S \ {c} \in SUBSET U /\ S \ {c} # {}
    BY <1>2
  <2>2. PICK q \in S \ {c} : f[q] \notin S \ {c}
    BY <2>1 DEF Forest
  <2> QED BY <2>1, <2>2
<1> QED BY <1>1, <1>2

\* Those of p go to the one p goes to.
LEMMA ForestInherit ==
  ASSUME NEW f, NEW U, NEW g, NEW p \in U, Forest(f, U),
         \A q \in U : g[q] = IF f[q] = p THEN f[p] ELSE f[q]
  PROVE  Forest(g, U)
<1> SUFFICES ASSUME NEW S \in SUBSET U, S # {}, \A q \in S : g[q] \in S PROVE FALSE
  BY DEF Forest
<1>1. CASE \E q \in S : f[q] = p
  <2>1. f[p] \in S
    BY <1>1
  <2>2. \A q \in S \cup {p} : f[q] \in S \cup {p}
    BY <2>1
  <2>3. S \cup {p} \in SUBSET U
    OBVIOUS
  <2> QED BY <2>2, <2>3 DEF Forest
<1>2. CASE \A q \in S : f[q] # p
  <2>1. \A q \in S : f[q] \in S
    BY <1>2
  <2> QED BY <2>1 DEF Forest
<1> QED BY <1>1, <1>2

\* Those of p go to one outside.
LEMMA ForestAdopt ==
  ASSUME NEW f, NEW U, NEW g, NEW p \in U, NEW r, r \notin U, Forest(f, U),
         \A q \in U : g[q] = IF f[q] = p THEN r ELSE f[q]
  PROVE  Forest(g, U)
<1> SUFFICES ASSUME NEW S \in SUBSET U, S # {}, \A q \in S : g[q] \in S PROVE FALSE
  BY DEF Forest
<1>1. \A q \in S : f[q] \in S
  OBVIOUS
<1> QED BY <1>1 DEF Forest

-----------------------------------------------------------------------------
(* What a step that leaves something alone keeps.                          *)

LEMMA LinkedFrame ==
  ASSUME Linked, UNCHANGED tree,
         \A q \in Proc :
           /\ stat'[q] = "none" <=> stat[q] = "none"
           /\ Grown(q) => Grown(q)'
           /\ Is(q, "STHREAD")' => Is(q, "STHREAD")
  PROVE  Linked'
<1>1. Kids' = Kids /\ \A q \in Proc : Kid(q)' <=> Kid(q)
  BY DEF Kids, Kid
<1>2. \A q \in Proc : MayHaveKids(q) => MayHaveKids(q)'
  BY DEF MayHaveKids
<1>3. Forest(parent, Kids)' /\ Forest(nextofkin, Kids)'
  BY <1>1 DEF Linked, Forest, tree
<1> QED BY <1>1, <1>2, <1>3 DEF Linked, tree

LEMMA DuplicatingFrame ==
  ASSUME Linked, Duplicating,
         \A q \in Proc :
           /\ stat[q] \notin {"none", "SZOMB"} => parent'[q] = parent[q]
           /\ stat'[q] = "SIDL" <=> stat[q] = "SIDL"
           /\ pc'[q] = "procdup" <=> pc[q] = "procdup"
           /\ pc[q] = "procdup" => arg'[q] = arg[q],
         stat[proc_init] # "SIDL"
  PROVE  Duplicating'
<1>1. \A c \in Proc : stat[c] = "SIDL" => parent[c] \in Proc
  BY DEF Linked, Kid
<1> QED BY <1>1 DEF Duplicating

HousePlaces == Relvm \cup {"exit", "exit_last"}

LEMMA HousedFrame ==
  ASSUME Linked, Placed, Lent, Housed, UNCHANGED mem,
         \A q \in Proc :
           /\ stat[q] \notin {"none", "SZOMB"} => parent'[q] = parent[q]
           /\ Grown(q)' <=> Grown(q)
           /\ Is(q, "STHREAD")' <=> Is(q, "STHREAD")
           /\ Is(q, "SVFORK")' <=> Is(q, "SVFORK")
           /\ pc'[q] = pc[q] \/ {pc[q], pc'[q]} \cap HousePlaces = {}
  PROVE  Housed'
<1>1. \A q \in Proc : Is(q, "STHREAD") \/ Is(q, "SVFORK") =>
         /\ parent[q] \in Proc
         /\ stat[q] \notin {"none", "SZOMB"}
  BY DEF Placed, Lent, Borrows, Linked, Kid
<1>2. space' = space /\ spaces' = spaces
  BY DEF mem
<1>3. \A q \in Proc, X \in {HousePlaces, Relvm \cup {"exit_last"}} : pc'[q] \in X <=> pc[q] \in X
  BY DEF HousePlaces
<1>4. Housed!1' /\ Housed!2'
  BY <1>2 DEF Housed
<1>5. Housed!3'
  BY <1>1, <1>2, <1>3 DEF Housed, Grown
<1>6. Housed!4'
  BY <1>1, <1>3 DEF Housed, HousePlaces
<1> QED BY <1>4, <1>5, <1>6 DEF Housed

\* One on its way out has no thread left.
LEMMA NoThreads ==
  ASSUME IInv, NEW p \in Proc, stat[p] = "SRUN", pc[p] \in HousePlaces
  PROVE  Threads(p) = {}
<1> SUFFICES ASSUME NEW q \in child[p], Is(q, "STHREAD") PROVE FALSE
  BY DEF Threads
<1>1. q \in Proc /\ parent[q] = p
  BY DEF IInv, TypeOK, Linked
<1> QED BY <1>1 DEF IInv, Housed, HousePlaces

LEMMA LentFrame ==
  ASSUME Linked, Lent,
         \A q \in Proc :
           /\ stat[q] \notin {"none", "SZOMB"} => parent'[q] = parent[q]
           /\ stat'[q] \in {"none", "SZOMB"} <=> stat[q] \in {"none", "SZOMB"}
           /\ Grown(q)' <=> Grown(q)
           /\ flag'[q] \cap {"SVFORK", "SVFDONE"} = flag[q] \cap {"SVFORK", "SVFDONE"}
           /\ pc'[q] = pc[q]
              \/ {pc[q], pc'[q]} \cap (Relvm \cup {"procdup", "vfwait", "exit_last"}) = {}
           /\ pc[q] \in {"procdup", "vfwait"} => arg'[q] = arg[q]
  PROVE  Lent'
<1>1. \A q \in Proc :
       /\ Is(q, "SVFORK")' <=> Is(q, "SVFORK")
       /\ Is(q, "SVFDONE")' <=> Is(q, "SVFDONE")
       /\ Borrows(q)' <=> Borrows(q)
  BY DEF Is, Borrows, Relvm
<1>2. \A c \in Proc : Borrows(c) => parent[c] \in Proc
  BY DEF Lent, Linked, Kid
<1> QED BY <1>1, <1>2 DEF Lent

\* A process taken off its sleep queue: it runs, or stays stopped.
Woke(q) ==
  /\ Grown(q) /\ chan'[q] = None
  /\ stat'[q] = "SRUN" \/ (stat[q] = "SSTOP" /\ stat'[q] = "SSTOP")

LEMMA OnQueue ==
  ASSUME TypeOK, NEW c \in Proc
  PROVE  \A q \in Proc : /\ q \in Asleep({c}) <=> chan[q] = c
                         /\ chan[q] = c => Grown(q)
                         /\ q \in Running(Asleep({c}), {}) <=> chan[q] = c /\ stat[q] = "SSLEEP"
                         /\ chan[q] = c /\ stat[q] # "SSLEEP" => stat[q] = "SSTOP"
BY ProcessAssumption DEF TypeOK, Asleep, Running, Grown

-----------------------------------------------------------------------------
(* The actions.                                                            *)

LEMMA WaitBeginHolds ==
  ASSUME IInv, NEW p \in Proc, NEW id \in {P_ALL} \cup child[p], WaitBegin(p, id)
  PROVE  IInv'
<1> USE DEF IInv, WaitBegin, InUser, At, tree, mem
<1>1. TypeOK'
  BY DEF TypeOK, Places
<1>2. Linked'
  BY LinkedFrame DEF Grown, Is
<1>3. Placed' /\ FirstPlaced'
  BY <1>1, ProcessAssumption DEF Placed, FirstPlaced, Is, TypeOK, Relvm
<1>4. Duplicating'
  BY DuplicatingFrame DEF FirstPlaced, TypeOK
<1>5. Lent'
  BY LentFrame DEF TypeOK, Grown, Relvm
<1>6. Housed'
  BY HousedFrame DEF TypeOK, Grown, Is, HousePlaces, Relvm
<1>7. Awaiting'
  BY DEF Awaiting, TypeOK, Is, Relvm
<1> QED BY <1>1, <1>2, <1>3, <1>4, <1>5, <1>6, <1>7

LEMMA exitHolds ==
  ASSUME IInv, NEW p \in Proc, exit(p)
  PROVE  IInv'
<1> USE DEF IInv, exit, At, tree, mem
<1>1. TypeOK'
  BY DEF TypeOK, Places
<1>2. Linked'
  BY LinkedFrame DEF Grown, Is
<1>3. Placed' /\ FirstPlaced'
  BY <1>1 DEF Placed, FirstPlaced, Is, TypeOK, Relvm
<1>4. Duplicating'
  BY DuplicatingFrame DEF FirstPlaced, TypeOK
<1>5. Lent'
  BY LentFrame DEF TypeOK, Grown, Relvm
<1>6. Housed'
  BY HousedFrame DEF TypeOK, Grown, Is, HousePlaces, Relvm
<1>7. Awaiting'
  BY DEF Awaiting, TypeOK, Is, Relvm
<1> QED BY <1>1, <1>2, <1>3, <1>4, <1>5, <1>6, <1>7

LEMMA exit_threadsHolds ==
  ASSUME IInv, NEW p \in Proc, exit_threads(p)
  PROVE  IInv'
<1> USE DEF IInv, exit_threads, At, tree, mem
<1>0. p # proc_init /\ \A q \in Roused(Threads(p)) : q \in Proc \ {p} /\ Grown(q)
  BY DEF Roused, Signalled, Threads, Is, Placed, FirstPlaced, TypeOK, Grown
<1>a. Threads(p) = {} => \A q \in Proc : Is(q, "STHREAD") => parent[q] # p
  BY DEF Threads, Linked, Placed, Kid
<1>b. \A q \in Proc : stat'[q] = stat[q] \/ (Grown(q)' /\ Grown(q))
  BY <1>0 DEF TypeOK, Grown, Roused, Signalled, Threads
<1>c. \A q \in Proc : \/ stat'[q] = stat[q] /\ chan'[q] = chan[q]
                      \/ Grown(q) /\ stat'[q] = "SRUN"
                      \/ q = p /\ stat'[q] = "SSLEEP" /\ chan'[q] = p /\ UNCHANGED <<pc, flag>>
  BY <1>0 DEF TypeOK
<1>d. /\ \A q \in Proc \ {p} : pc'[q] = pc[q] /\ flag'[q] = flag[q]
      /\ pc[p] = "exit_threads" /\ pc'[p] \in {"exit_threads", "exit"}
      /\ flag'[p] = flag[p] \ {"STRC"} \/ flag'[p] = flag[p]
  BY DEF TypeOK
<1>1. TypeOK'
  BY <1>0, ProcessAssumption DEF TypeOK, Places, Stats, Roused, Signalled, Threads, Restarted
<1>2. Linked'
  BY <1>b, LinkedFrame DEF Grown, Is, TypeOK
<1>e. \A q \in Proc : wcode'[q] = "exited" => wcode[q] = "exited"
  BY ProcessAssumption DEF Restarted
<1>3. Placed' /\ FirstPlaced'
  <2>1. \A q \in Proc \ {p} : Placed!(q)'
    BY <1>c, <1>d, <1>e DEF Placed, Is, Grown, Relvm
  <2>2. Placed!(p)'
    BY <1>c, <1>d, <1>e DEF Placed, Is, Grown, Relvm
  <2>3. Placed'
    BY <2>1, <2>2 DEF Placed
  <2> QED BY <1>0, <1>c, <1>d, <2>3, ProcessAssumption DEF FirstPlaced
<1>4. Duplicating'
  BY <1>b, DuplicatingFrame DEF FirstPlaced, TypeOK, Grown
<1>5. Lent'
  BY <1>b, LentFrame DEF TypeOK, Grown, Relvm
<1>6. Housed'
  <2>1. \A q \in Proc : Is(q, "STHREAD") \/ Is(q, "SVFORK") => parent[q] \in Proc
    BY DEF Placed, Lent, Borrows, Linked, Kid
  <2>2. /\ space' = space /\ spaces' = spaces /\ parent' = parent
        /\ \A q \in Proc : Grown(q)' <=> Grown(q)
        /\ \A q \in Proc, f \in {"STHREAD", "SVFORK"} : Is(q, f)' <=> Is(q, f)
    BY <1>b, <1>d DEF Grown, Is
  <2>3. /\ \A q \in Proc : pc'[q] \in Relvm \cup {"exit_last"} <=> pc[q] \in Relvm \cup {"exit_last"}
        /\ \A q \in Proc : pc'[q] = pc[q] \/ (q = p /\ Threads(p) = {})
    BY <1>d DEF Relvm
  <2>4. Housed!1' /\ Housed!2'
    BY <2>2 DEF Housed
  <2>5. Housed!3'
    BY <2>1, <2>2, <2>3 DEF Housed
  <2>6. Housed!4'
    BY <1>a, <2>1, <2>2, <2>3 DEF Housed
  <2> QED BY <2>4, <2>5, <2>6 DEF Housed
<1>7. Awaiting'
  <2>1. stat'[p] = "SSLEEP" => \E q \in Proc : q \in child[p] /\ Is(q, "STHREAD")
    BY DEF Threads, TypeOK
  <2>2. pc'[p] = "exit_threads" \/ stat'[p] # "SSLEEP"
    BY <1>c, <1>d DEF TypeOK
  <2>3. \A q \in Proc : Is(q, "STHREAD")' <=> Is(q, "STHREAD")
    BY <1>d DEF Is
  <2>4. \A q \in Proc \ {p} : Is(q, "SVFDONE")' <=> Is(q, "SVFDONE")
    BY <1>d DEF Is
  <2>5. \A q \in Proc : Is(q, "SVFORK")' <=> Is(q, "SVFORK")
    BY <1>d DEF Is
  <2> QED BY <1>c, <1>d, <1>e, <2>1, <2>2, <2>3, <2>4, <2>5 DEF Awaiting, Relvm, Lent
<1> QED BY <1>1, <1>2, <1>3, <1>4, <1>5, <1>6, <1>7

LEMMA killHolds ==
  ASSUME IInv, NEW p \in Proc, kill(p)
  PROVE  IInv'
<1> USE DEF IInv, kill, SetRun, Running, tree, mem
<1>0. \A q \in Roused({p}) : q \in Proc /\ Grown(q)
  BY DEF Roused, Signalled, Grown
<1>b. \A q \in Proc : stat'[q] = stat[q] \/ (Grown(q)' /\ Grown(q))
  BY <1>0 DEF TypeOK, Grown, Roused, Signalled
<1>c. \A q \in Proc : \/ stat'[q] = stat[q] /\ chan'[q] = chan[q]
                      \/ Grown(q) /\ stat'[q] = "SRUN"
  BY <1>0 DEF TypeOK
<1>1. TypeOK'
  BY <1>0, ProcessAssumption DEF TypeOK, Places, Stats, Roused, Signalled, Restarted
<1>2. Linked'
  BY <1>b, LinkedFrame DEF Grown, Is, TypeOK
<1>e. \A q \in Proc : wcode'[q] = "exited" => wcode[q] = "exited"
  BY ProcessAssumption DEF Restarted
<1>3. Placed' /\ FirstPlaced'
  BY <1>c, <1>e, ProcessAssumption DEF Placed, FirstPlaced, Is, Grown
<1>4. Duplicating'
  BY <1>b, DuplicatingFrame DEF FirstPlaced, TypeOK, Grown
<1>5. Lent'
  BY <1>b, LentFrame DEF TypeOK, Grown, Relvm
<1>6. Housed'
  BY <1>b, HousedFrame DEF TypeOK, Grown, Is, HousePlaces, Relvm
<1>7. Awaiting'
  <2>1. \A q \in Proc : stat'[q] = "SSLEEP" => stat[q] = "SSLEEP"
    BY <1>c
  <2>2. UNCHANGED <<pc, arg, flag, child>>
    OBVIOUS
  <2>3. Awaiting
    OBVIOUS
  <2> HIDE DEF IInv, kill, SetRun
  <2> QED BY <1>e, <2>1, <2>2, <2>3 DEF Awaiting, Is, Relvm
<1> QED BY <1>1, <1>2, <1>3, <1>4, <1>5, <1>6, <1>7

LEMMA ptraceHolds ==
  ASSUME IInv, NEW p \in Proc, ptrace(p)
  PROVE  IInv'
<1> USE DEF IInv, ptrace, InUser, At, tree, mem
<1>1. TypeOK'
  BY DEF TypeOK
<1>0. \A q \in Proc, f \in {"STHREAD", "SVFORK", "SVFDONE", "SNOWAIT"} : Is(q, f)' <=> Is(q, f)
  BY DEF Is, TypeOK
<1>2. Linked'
  BY <1>0, LinkedFrame DEF Grown
<1>3. Placed' /\ FirstPlaced'
  BY <1>0, ProcessAssumption DEF Placed, FirstPlaced, TypeOK
<1>4. Duplicating'
  BY DuplicatingFrame DEF FirstPlaced, TypeOK
<1>5. Lent'
  BY LentFrame DEF TypeOK, Grown, Relvm
<1>6. Housed'
  BY <1>0, HousedFrame DEF TypeOK, Grown, HousePlaces, Relvm
<1>7. Awaiting'
  BY <1>0 DEF Awaiting, TypeOK, Is, Relvm
<1> QED BY <1>1, <1>2, <1>3, <1>4, <1>5, <1>6, <1>7

LEMMA issigHolds ==
  ASSUME IInv, NEW p \in Proc, NEW c, issig(p, c),
         stat[p] \in {"SRUN", "SSLEEP"}, pc[p] \in {"user", "waitid"},
         c = None \/ (pc[p] = "waitid" /\ c = WaitChannel(p))
  PROVE  IInv'
<1> USE DEF IInv, issig, SetRun, tree, mem
<1> DEFINE W == Asleep({parent[p]})
<1>0. /\ p # proc_init /\ parent[p] \in Proc /\ parent[p] # p
      /\ \A q \in W : q \in Proc /\ Grown(q)
      /\ \A q \in Running(W, {}) : q \in Proc /\ Grown(q)
  <2>1. p # proc_init /\ Kid(p)
    BY DEF FirstPlaced, Is, Kid
  <2>2. parent[p] \in Proc /\ parent[p] # p
    BY <2>1 DEF Linked, Forest, Kids
  <2> QED BY <2>1, <2>2, ProcessAssumption DEF Asleep, Running, TypeOK, Grown
<1>c. \A q \in Proc :
        \/ stat'[q] = stat[q] /\ chan'[q] = chan[q] /\ q # p
        \/ Grown(q) /\ stat'[q] = "SRUN" /\ chan'[q] = None
        \/ Grown(q) /\ stat[q] = "SSTOP" /\ stat'[q] = "SSTOP" /\ chan'[q] = None /\ q # p
        \/ q = p /\ stat'[q] = "SSTOP" /\ chan'[q] = c
  BY <1>0 DEF stop, Running, Asleep, TypeOK, Grown
<1>b. \A q \in Proc : stat'[q] = stat[q] \/ (Grown(q)' /\ Grown(q))
  BY <1>c DEF Grown
<1>e. \A q \in Proc : /\ wcode'[q] \in {wcode[q], "trapped"}
                      /\ q # p => wcode'[q] = wcode[q]
                      /\ killed' \subseteq Proc
                      /\ wcode' \in [Proc -> {"exited", "trapped", None}]
  BY DEF TypeOK, stop
<1>f. c \in Proc \cup {None}
  BY ProcessAssumption DEF WaitChannel, TypeOK, Placed
<1>1. TypeOK'
  <2>1. stat' \in [Proc -> Stats]
    BY <1>c DEF TypeOK, Stats, Grown, stop
  <2>2. chan' \in [Proc -> Proc \cup {WAITER, None}]
    BY <1>c, <1>f DEF TypeOK, stop
  <2>3. \A q \in Proc : /\ stat'[q] = "SSLEEP" => chan'[q] # None
                        /\ chan'[q] # None => stat'[q] \in {"SSLEEP", "SSTOP"}
    BY <1>c DEF TypeOK
  <2> QED BY <1>e, <2>1, <2>2, <2>3 DEF TypeOK
<1>2. Linked'
  BY <1>b, LinkedFrame DEF Grown, Is, TypeOK
<1>3. Placed' /\ FirstPlaced'
  <2>1. UNCHANGED <<pc, arg, flag>>
    OBVIOUS
  <2>2. \A q \in Proc : wcode'[q] = "exited" => stat'[q] = "SZOMB"
    BY <1>b, <1>e, ProcessAssumption DEF Placed, Grown
  <2>3. Placed'
    <3>1. \A q \in Proc \ {p} : Placed!(q)'
      BY <1>c, <2>1, <2>2 DEF Placed, Is, Grown
    <3>2. Placed!(p)'
      BY <1>c, <2>1, <2>2 DEF Placed, Is, Grown
    <3> QED BY <3>1, <3>2 DEF Placed
  <2> QED BY <1>0, <1>c, <2>1, <2>3, ProcessAssumption DEF FirstPlaced
<1>4. Duplicating'
  BY <1>b, DuplicatingFrame DEF FirstPlaced, TypeOK, Grown
<1>5. Lent'
  BY <1>b, LentFrame DEF TypeOK, Grown, Relvm
<1>6. Housed'
  BY <1>b, HousedFrame DEF TypeOK, Grown, Is, HousePlaces, Relvm
<1>7. Awaiting'
  <2>1. \A q \in Proc : stat'[q] = "SSLEEP" => stat[q] = "SSLEEP"
    BY <1>c
  <2>2. \A q \in Proc : wcode'[q] = "exited" => wcode[q] = "exited"
    BY <1>e
  <2>3. UNCHANGED <<pc, arg, flag, child>>
    OBVIOUS
  <2> QED BY <2>1, <2>2, <2>3 DEF Awaiting, Is, Relvm
<1> QED BY <1>1, <1>2, <1>3, <1>4, <1>5, <1>6, <1>7

LEMMA TracedStopHolds ==
  ASSUME IInv, NEW p \in Proc, TracedStop(p)
  PROVE  IInv'
BY issigHolds DEF TracedStop, NothingYet, InUser, At

LEMMA FutexHolds ==
  ASSUME IInv, NEW p \in Proc, FutexWait(p) \/ FutexReturns(p)
  PROVE  IInv'
<1> USE DEF IInv, tree, mem
<1>0. /\ UNCHANGED <<flag, killed, wcode, tree, arg, mem>>
      /\ \A q \in Proc \ {p} : stat'[q] = stat[q] /\ chan'[q] = chan[q] /\ pc'[q] = pc[q]
      /\ \/ /\ stat[p] = "SRUN" /\ pc[p] = "user"
            /\ stat'[p] = "SSLEEP" /\ pc'[p] = "futex" /\ chan'[p] = WAITER
         \/ /\ stat[p] = "SSLEEP" /\ pc[p] = "futex"
            /\ stat'[p] = "SRUN" /\ pc'[p] = "user" /\ chan'[p] = None
  BY DEF FutexWait, FutexReturns, sleep, SetRun, Running, InUser, At, TypeOK
<1>b. \A q \in Proc : stat'[q] = stat[q] \/ (Grown(q)' /\ Grown(q))
  BY <1>0 DEF Grown
<1>1. TypeOK'
  <2>1. /\ stat' \in [Proc -> Stats] /\ pc' \in [Proc -> Places]
        /\ chan' \in [Proc -> Proc \cup {WAITER, None}]
    BY DEF FutexWait, FutexReturns, sleep, SetRun, TypeOK, Stats, Places
  <2>2. WAITER # None
    BY ProcessAssumption
  <2> QED BY <1>0, <2>1, <2>2 DEF TypeOK
<1>2. Linked'
  BY <1>0, <1>b, LinkedFrame DEF Grown, Is, TypeOK
<1>3. Placed' /\ FirstPlaced'
  <2>1. \A q \in Proc \ {p} : Placed!(q)'
    BY <1>0 DEF Placed, Is, Relvm
  <2>2. Placed!(p)'
    BY <1>0, ProcessAssumption DEF Placed, Is, Relvm
  <2>3. Placed'
    BY <2>1, <2>2 DEF Placed
  <2> QED BY <1>0, <2>3, ProcessAssumption DEF FirstPlaced
<1>4. Duplicating'
  BY <1>0, <1>b, DuplicatingFrame DEF FirstPlaced, TypeOK, Grown
<1>5. Lent'
  BY <1>0, <1>b, LentFrame DEF TypeOK, Grown, Relvm
<1>6. Housed'
  BY <1>0, <1>b, HousedFrame DEF TypeOK, Grown, Is, HousePlaces, Relvm
<1>7. Awaiting'
  BY <1>0 DEF Awaiting, TypeOK, Is, Relvm
<1> QED BY <1>1, <1>2, <1>3, <1>4, <1>5, <1>6, <1>7

LEMMA WaitTrappedHolds ==
  ASSUME IInv, NEW p \in Proc, WaitTrapped(p)
  PROVE  IInv'
<1> USE DEF IInv, WaitTrapped, WaitReturns, At, tree, mem
<1>0. PICK c \in Proc : wcode' = [wcode EXCEPT ![c] = None]
  BY DEF Matching, TypeOK
<1>1. TypeOK'
  BY <1>0 DEF TypeOK, Places
<1>2. Linked'
  BY LinkedFrame DEF Grown, Is
<1>3. Placed' /\ FirstPlaced'
  BY <1>0, ProcessAssumption DEF Placed, FirstPlaced, Is, TypeOK, Relvm
<1>4. Duplicating'
  BY DuplicatingFrame DEF FirstPlaced, TypeOK
<1>5. Lent'
  BY LentFrame DEF TypeOK, Grown, Relvm
<1>6. Housed'
  BY HousedFrame DEF TypeOK, Grown, Is, HousePlaces, Relvm
<1>7. Awaiting'
  BY <1>0, ProcessAssumption DEF Awaiting, TypeOK, Is, Relvm
<1> QED BY <1>1, <1>2, <1>3, <1>4, <1>5, <1>6, <1>7

LEMMA WaitFailsHolds ==
  ASSUME IInv, NEW p \in Proc, WaitFails(p)
  PROVE  IInv'
<1> USE DEF IInv, WaitFails, WaitReturns, At, tree, mem
<1>1. TypeOK'
  BY DEF TypeOK, Places
<1>2. Linked'
  BY LinkedFrame DEF Grown, Is
<1>3. Placed' /\ FirstPlaced'
  BY ProcessAssumption DEF Placed, FirstPlaced, Is, TypeOK, Relvm
<1>4. Duplicating'
  BY DuplicatingFrame DEF FirstPlaced, TypeOK
<1>5. Lent'
  BY LentFrame DEF TypeOK, Grown, Relvm
<1>6. Housed'
  BY HousedFrame DEF TypeOK, Grown, Is, HousePlaces, Relvm
<1>7. Awaiting'
  BY DEF Awaiting, TypeOK, Is, Relvm
<1> QED BY <1>1, <1>2, <1>3, <1>4, <1>5, <1>6, <1>7

LEMMA WaitSleepsHolds ==
  ASSUME IInv, NEW p \in Proc, WaitSleeps(p)
  PROVE  IInv'
<1> USE DEF IInv, WaitSleeps, NothingYet, WaitChannel, sleep, At, tree, mem
<1>0. arg[p] # None /\ arg[p] \in Proc \cup {P_ALL}
  BY DEF Placed, TypeOK
<1>1. TypeOK'
  BY <1>0, ProcessAssumption DEF TypeOK, Stats
<1>2. Linked'
  BY LinkedFrame DEF Grown, Is, TypeOK
<1>3. Placed' /\ FirstPlaced'
  BY ProcessAssumption DEF Placed, FirstPlaced, Is, TypeOK, Relvm
<1>4. Duplicating'
  BY DuplicatingFrame DEF FirstPlaced, TypeOK
<1>5. Lent'
  BY LentFrame DEF TypeOK, Grown, Relvm
<1>6. Housed'
  BY HousedFrame DEF TypeOK, Grown, Is, HousePlaces, Relvm
<1>7. Awaiting'
  <2>1. \A c \in child[p] : ~Is(c, "STHREAD") /\ arg[p] \in {P_ALL, c} => wcode[c] = None
    BY DEF Matching
  <2> QED BY <2>1, ProcessAssumption DEF Awaiting, TypeOK, Is, Relvm
<1> QED BY <1>1, <1>2, <1>3, <1>4, <1>5, <1>6, <1>7

LEMMA vfwaitHolds ==
  ASSUME IInv, NEW p \in Proc, vfwait(p)
  PROVE  IInv'
<1> USE DEF IInv, vfwait, At, tree, mem
<1>0. PICK c \in Proc : c = arg[p] /\ Grown(c) /\ parent[c] = p /\ Borrows(c)
  BY DEF Lent
<1>1. CASE Is(c, "SVFORK")
  <2> USE DEF sleep
  <2>0. stat' = [stat EXCEPT ![p] = "SSLEEP"] /\ chan' = [chan EXCEPT ![p] = c]
        /\ UNCHANGED <<pc, flag, arg>>
    BY <1>0, <1>1 DEF Left
  <2>1. TypeOK'
    BY <1>0, <2>0, ProcessAssumption DEF TypeOK, Stats
  <2>2. Linked'
    BY <2>0, LinkedFrame DEF Grown, Is, TypeOK
  <2>3. Placed' /\ FirstPlaced'
    BY <2>0, ProcessAssumption DEF Placed, FirstPlaced, Is, TypeOK, Relvm
  <2>4. Duplicating'
    BY <2>0, DuplicatingFrame DEF FirstPlaced, TypeOK
  <2>5. Lent'
    BY <2>0, LentFrame DEF TypeOK, Grown, Relvm
  <2>6. Housed'
    BY <2>0, HousedFrame DEF TypeOK, Grown, Is, HousePlaces, Relvm
  <2>7. Awaiting'
    BY <1>1, <2>0, ProcessAssumption DEF Awaiting, TypeOK, Is, Relvm
  <2> QED BY <2>1, <2>2, <2>3, <2>4, <2>5, <2>6, <2>7
<1>2. CASE ~Is(c, "SVFORK")
  <2>0. /\ flag' = [flag EXCEPT ![c] = @ \cup {"SVFDONE"}]
        /\ SetRun(stat, Asleep({c}), {})
        /\ pc' = [pc EXCEPT ![p] = "user"]
        /\ arg' = [arg EXCEPT ![p] = None]
    BY <1>0, <1>2 DEF Left
  <2>a. pc[c] \in Relvm /\ c # p
    BY <1>0, <1>2 DEF Borrows, Relvm
  <2>b. \A q \in Proc :
           IF chan[q] = c THEN Woke(q)
                          ELSE stat'[q] = stat[q] /\ chan'[q] = chan[q]
    BY <1>0, <2>0, OnQueue DEF SetRun, Woke
  <2>d. \A q \in Proc, f \in {"STHREAD", "SVFORK", "SNOWAIT", "STRC"} :
           Is(q, f)' <=> Is(q, f)
    BY <2>0 DEF Is, TypeOK
  <2>1. TypeOK'
    <3>1. /\ flag' \in [Proc -> SUBSET {"STHREAD", "SVFORK", "SVFDONE", "SNOWAIT", "STRC"}]
          /\ pc' \in [Proc -> Places]
          /\ arg' \in [Proc -> Proc \cup {P_ALL, None}]
      BY <2>0 DEF TypeOK, Places
    <3>2. stat' \in [Proc -> Stats] /\ chan' \in [Proc -> Proc \cup {WAITER, None}]
      BY <2>0 DEF TypeOK, SetRun, Stats
    <3>3. \A q \in Proc : /\ stat'[q] = "SSLEEP" => chan'[q] # None
                          /\ chan'[q] # None => stat'[q] \in {"SSLEEP", "SSTOP"}
      BY <2>b DEF TypeOK, Woke
    <3> QED BY <3>1, <3>2, <3>3 DEF TypeOK
  <2>2. Linked'
    BY <2>b, <2>d, LinkedFrame DEF Grown, Woke
  <2>3. Placed' /\ FirstPlaced'
    <3>1. \A q \in Proc \ {p} : pc'[q] = pc[q] /\ arg'[q] = arg[q]
      BY <2>0
    <3>2. pc[p] = "vfwait" /\ pc'[p] = "user"
      BY <2>0 DEF TypeOK
    <3>3. Placed'
      BY <2>b, <2>d, <3>1, <3>2 DEF Placed, Grown, Woke
    <3>4. FirstPlaced'
      BY <2>0, <2>a, <2>b, ProcessAssumption DEF FirstPlaced, TypeOK, Grown, Relvm, Woke
    <3> QED BY <3>3, <3>4
  <2>4. Duplicating'
    BY <2>0, <2>b, DuplicatingFrame DEF FirstPlaced, TypeOK, Grown, Woke
  <2>5. Lent'
    <3>1. \A q \in Proc \ {c} : Borrows(q)' <=> Borrows(q)
      BY <2>0, <2>d DEF Borrows, Is, Relvm, TypeOK
    <3>2. ~Borrows(c)'
      BY <1>2, <2>0, <2>d, <1>0 DEF Borrows, Is, TypeOK
    <3>3. \A q \in Proc : Grown(q)' <=> Grown(q)
      BY <2>b DEF Grown, Woke
    <3>4. \A q \in Proc : Borrows(q) => parent[q] \in Proc
      BY DEF Lent, Linked, Kid
    <3> QED BY <1>0, <2>0, <2>a, <2>b, <2>d, <3>1, <3>2, <3>3, <3>4 DEF Lent, Is, TypeOK, Relvm, Grown, Woke
  <2>6. Housed'
    BY <2>0, <2>b, <2>d, HousedFrame DEF TypeOK, Grown, HousePlaces, Relvm, Woke
  <2>7. Awaiting'
    <3>1. \A q \in Proc \ {c} : Is(q, "SVFDONE")' <=> Is(q, "SVFDONE")
      BY <2>0 DEF Is
    <3>2. chan[c] = c \/ stat[c] # "SSLEEP"
      BY <2>a, <1>0 DEF Placed
    <3> QED BY <2>0, <2>b, <2>d, <3>1, <3>2 DEF Awaiting, TypeOK, Relvm, Lent, Woke
  <2> QED BY <2>1, <2>2, <2>3, <2>4, <2>5, <2>6, <2>7
<1> QED BY <1>1, <1>2

-----------------------------------------------------------------------------
(* Address spaces.                                                         *)

LEMMA FreshIs ==
  ASSUME NEW p \in Proc, NEW sp, Unused(p, sp) # {}
  PROVE  /\ Fresh(p, sp) \in Space /\ Fresh(p, sp) # None
         /\ Fresh(p, sp) \notin sp
         /\ \A q \in Proc \ {p} : space[q] # Fresh(p, sp)
<1>1. Fresh(p, sp) \in Unused(p, sp)
  BY DEF Fresh
<1> QED BY <1>1, ProcessAssumption DEF Unused, Space

\* A process that is out of the kernel's waits, with no thread and an address
\* space of its own, is alone in it: the others would be vfork children whose
\* parents are there as well, without end.
LEMMA Alone ==
  ASSUME IInv, NEW p \in Proc, Grown(p), space[p] # None,
         pc[p] \notin {"procdup", "vfwait"}, Threads(p) = {},
         ~Is(p, "SVFORK"), ~Is(p, "STHREAD")
  PROVE  \A q \in Proc : Grown(q) /\ space[q] = space[p] => q = p
<1> USE DEF IInv
<1> DEFINE S == {q \in Proc \ {p} : Grown(q) /\ space[q] = space[p] /\ ~Is(q, "STHREAD")}
<1>1. \A q \in S : Is(q, "SVFORK")
  BY DEF Housed
<1>2. \A q \in S : parent[q] \in S /\ Kid(q)
  BY <1>1 DEF Housed, Lent, Linked, Kid, Borrows, MayHaveKids
<1>3. S = {}
  <2>1. S \in SUBSET Kids
    BY <1>2 DEF Kids
  <2> HIDE DEF S
  <2> QED BY <1>2, <2>1 DEF Linked, Forest
<1>4. ASSUME NEW q \in Proc \ {p}, Grown(q), space[q] = space[p] PROVE FALSE
  <2>1. Is(q, "STHREAD")
    BY <1>3, <1>4
  <2>2. parent[q] \in Proc /\ MayHaveKids(parent[q]) /\ space[parent[q]] = space[p]
    BY <1>4, <2>1 DEF Linked, Kid, Placed, Housed
  <2>3. parent[q] # p
    BY <1>4, <2>1 DEF Threads, Linked, Kid, Placed, Grown
  <2> QED BY <1>3, <2>2, <2>3 DEF MayHaveKids
<1> QED BY <1>4

\* What AfterRelvm() needs of the one it is called for, and of the others.
Leaving(p, sp) ==
  /\ stat[p] = "SRUN"
  /\ pc[p] \in {"user", "exit"} \cup Relvm
  /\ ~Is(p, "SVFORK")
  /\ ~Is(p, "STHREAD")
  /\ Threads(p) = {}
  /\ sp \subseteq Space
  /\ \A s \in Space : s \in sp <=> \E q \in Proc \ {p} : Grown(q) /\ space[q] = s

LEMMA AfterRelvmHolds ==
  ASSUME IInv, NEW p \in Proc, NEW sp, Leaving(p, sp), AfterRelvm(p, sp),
         \/ flag' = [flag EXCEPT ![p] = ExecFlags(p, @)] /\ pc[p] \notin Relvm
         \/ flag' = [flag EXCEPT ![p] = ExecFlags(p, @ \ {"SVFDONE"})]
              /\ pc[p] \in Relvm /\ Is(p, "SVFDONE"),
         p = proc_init => pc[p] = "user",
         UNCHANGED <<stat, chan, killed, wcode, tree, arg>>
  PROVE  IInv'
<1> USE DEF IInv, tree, Leaving
<1>a. \/ /\ pc' = [pc EXCEPT ![p] = "exit_last"]
         /\ space' = [space EXCEPT ![p] = None] /\ spaces' = sp
         /\ pc[p] \in {"exit", "relvm_exit"}
      \/ \E s \in Space :
           /\ pc' = [pc EXCEPT ![p] = "user"]
           /\ space' = [space EXCEPT ![p] = s] /\ spaces' = sp \cup {s}
           /\ s # None /\ s \notin sp /\ \A q \in Proc \ {p} : space[q] # s
           /\ pc[p] \in {"user", "relvm_exec"}
  BY FreshIs DEF AfterRelvm, Relvm
<1>b. /\ \A q \in Proc, f \in {"STHREAD", "SVFORK", "STRC"} : Is(q, f)' <=> Is(q, f)
      /\ \A q \in Proc \ {p} : flag'[q] = flag[q]
      /\ flag'[p] \subseteq flag[p] \ {"SVFDONE"}
  BY DEF Is, TypeOK, ExecFlags, Lent
<1>c. /\ pc'[p] \in {"user", "exit_last"} /\ \A q \in Proc \ {p} : pc'[q] = pc[q]
      /\ \A q \in Proc \ {p} : space'[q] = space[q]
      /\ pc'[p] = "user" <=> space'[p] # None
      /\ p = proc_init => pc'[p] = "user"
  BY <1>a DEF TypeOK, Relvm
<1>1. TypeOK'
  <2>1. pc' \in [Proc -> Places] /\ space' \in [Proc -> Space \cup {None}] /\ spaces' \subseteq Space
    BY <1>a DEF TypeOK, Places
  <2>2. flag' \in [Proc -> SUBSET {"STHREAD", "SVFORK", "SVFDONE", "SNOWAIT", "STRC"}]
    BY DEF TypeOK, ExecFlags
  <2> QED BY <2>1, <2>2 DEF TypeOK
<1>2. Linked'
  BY <1>b, LinkedFrame DEF Grown
<1>3. Placed' /\ FirstPlaced'
  BY <1>b, <1>c, ProcessAssumption DEF Placed, FirstPlaced, Is, Relvm
<1>4. Duplicating'
  BY <1>c, DuplicatingFrame DEF FirstPlaced, Relvm
<1>5. Lent'
  <2>1. \A q \in Proc : Borrows(q)' <=> Borrows(q)
    BY <1>b, <1>c DEF Borrows, Is, Relvm
  <2>2. \A q \in Proc : Borrows(q) => parent[q] \in Proc
    BY DEF Lent, Linked, Kid
  <2> QED BY <1>b, <1>c, <2>1, <2>2 DEF Lent, Is, Grown, Relvm
<1>6. Housed'
  <2>1. \A q \in Proc : Is(q, "STHREAD") => parent[q] \in Proc \ {p}
    BY DEF Placed, Linked, Kid, Threads
  <2>2. \A q \in Proc : Is(q, "SVFORK") => parent[q] \in Proc \ {p}
    BY DEF Lent, Linked, Kid, Borrows, Relvm
  <2>3. \A q \in Proc : Grown(q)' <=> Grown(q)
    BY DEF Grown
  <2>4. \A s \in Space : s \in spaces' <=> \E q \in Proc : Grown(q)' /\ space'[q] = s
    BY <1>a, <2>3, ProcessAssumption DEF Grown, TypeOK, Space
  <2>5. \A q \in Proc \ {p} : space'[q] = space'[p] => space'[p] = None
    BY <1>a DEF TypeOK
  <2>6. \A r, q \in Proc :
          /\ Grown(r)' /\ Grown(q)' /\ r # q
          /\ space'[r] = space'[q] /\ space'[r] # None
          /\ ~Is(r, "STHREAD")' /\ ~Is(q, "STHREAD")'
        => Is(r, "SVFORK")' \/ Is(q, "SVFORK")'
    BY <1>b, <1>c, <2>3, <2>5 DEF Housed
  <2>7. \A q \in Proc : Grown(q)' =>
          /\ space'[q] = None <=> pc'[q] \in Relvm \cup {"exit_last"}
          /\ Is(q, "STHREAD")' \/ Is(q, "SVFORK")' => space'[q] = space'[parent'[q]]
    BY <1>b, <1>c, <2>1, <2>2, <2>3 DEF Housed, Relvm
  <2>8. \A q \in Proc : Is(q, "STHREAD")' => pc'[parent'[q]] \notin Relvm \cup {"exit", "exit_last"}
    BY <1>b, <1>c, <2>1 DEF Housed
  <2> QED BY <2>4, <2>6, <2>7, <2>8 DEF Housed
<1>7. Awaiting'
  BY <1>b, <1>c DEF Awaiting, Is, Relvm, Lent
<1> QED BY <1>1, <1>2, <1>3, <1>4, <1>5, <1>6, <1>7

LEMMA RelvmWaitHolds ==
  ASSUME IInv, NEW p \in Proc, RelvmWait(p)
  PROVE  IInv'
<1> USE DEF IInv, RelvmWait, At, tree, mem
<1>0. /\ stat[p] = "SRUN" /\ pc[p] \in Relvm /\ p # proc_init
      /\ ~Is(p, "SVFORK") /\ ~Is(p, "STHREAD") /\ space[p] = None
  BY DEF Relvm, FirstPlaced, Lent, Placed, Housed, Grown
<1>1. CASE Is(p, "SVFDONE")
  <2>1. Threads(p) = {}
    BY <1>0, NoThreads DEF HousePlaces
  <2>2. \A s \in Space : s \in spaces <=> \E q \in Proc \ {p} : Grown(q) /\ space[q] = s
    BY <1>0, ProcessAssumption DEF Housed, Space
  <2>3. Leaving(p, spaces)
    BY <1>0, <2>1, <2>2 DEF Leaving, TypeOK
  <2> QED BY <1>0, <1>1, <2>3, AfterRelvmHolds
<1>2. CASE ~Is(p, "SVFDONE")
  <2>0. /\ stat' = [stat EXCEPT ![p] = "SSLEEP"] /\ chan' = [chan EXCEPT ![p] = p]
        /\ UNCHANGED <<pc, flag>>
    BY <1>2 DEF sleep
  <2>1. TypeOK'
    BY <2>0, ProcessAssumption DEF TypeOK, Stats
  <2>2. Linked'
    BY <2>0, LinkedFrame DEF Grown, Is, TypeOK
  <2>3. Placed' /\ FirstPlaced'
    BY <1>0, <2>0, ProcessAssumption DEF Placed, FirstPlaced, Is, TypeOK, Relvm
  <2>4. Duplicating'
    BY <2>0, DuplicatingFrame DEF FirstPlaced, TypeOK
  <2>5. Lent'
    BY <2>0, LentFrame DEF TypeOK, Grown, Relvm
  <2>6. Housed'
    BY <2>0, HousedFrame DEF TypeOK, Grown, Is, HousePlaces, Relvm
  <2>7. Awaiting'
    BY <1>0, <1>2, <2>0 DEF Awaiting, TypeOK, Is, Relvm
  <2> QED BY <2>1, <2>2, <2>3, <2>4, <2>5, <2>6, <2>7
<1> QED BY <1>1, <1>2

\* A vfork child gives the address space back to its parent.
LEMMA GiveBackHolds ==
  ASSUME IInv, NEW p \in Proc, stat[p] = "SRUN", pc[p] \in {"user", "exit"},
         Threads(p) = {}, Is(p, "SVFORK"), relvm(p),
         UNCHANGED <<killed, wcode, tree, arg>>
  PROVE  IInv'
<1> USE DEF IInv, tree
<1>0. /\ p # proc_init /\ ~Is(p, "STHREAD") /\ ~Is(p, "SVFDONE") /\ chan[p] = None
      /\ parent[p] \in Proc \ {p} /\ pc[parent[p]] \in {"procdup", "vfwait"} /\ arg[parent[p]] = p
      /\ Grown(parent[p]) /\ space[p] = space[parent[p]]
  BY DEF FirstPlaced, Is, Placed, Lent, Relvm, TypeOK, Borrows, Linked, Kid, MayHaveKids, Housed, Grown
<1>1. /\ flag' = [flag EXCEPT ![p] = @ \ {"SVFORK"}]
      /\ space' = [space EXCEPT ![p] = None]
      /\ pc'[p] \in Relvm /\ \A q \in Proc \ {p} : pc'[q] = pc[q]
      /\ pc' \in [Proc -> Places]
      /\ UNCHANGED spaces
  BY DEF relvm, Borrowed, Relvm, TypeOK, Places
<1>2. /\ stat'[p] = "SSLEEP" /\ chan'[p] = p
      /\ \A q \in Proc \ {p} :
           IF chan[q] = p THEN Woke(q)
                          ELSE stat'[q] = stat[q] /\ chan'[q] = chan[q]
      /\ stat' \in [Proc -> Stats] /\ chan' \in [Proc -> Proc \cup {WAITER, None}]
  <2>1. /\ stat' = [q \in Proc |-> IF q = p THEN "SSLEEP"
                                   ELSE IF q \in Running(Asleep({p}), {}) THEN "SRUN"
                                   ELSE stat[q]]
        /\ chan' = [q \in Proc |-> IF q = p THEN p
                                   ELSE IF q \in Asleep({p}) THEN None ELSE chan[q]]
    BY DEF relvm, Borrowed, Lender
  <2>2. stat \in [Proc -> Stats] /\ chan \in [Proc -> Proc \cup {WAITER, None}]
    BY DEF TypeOK
  <2> QED BY <2>1, <2>2, OnQueue DEF Stats, Woke
<1>3. /\ \A q \in Proc, f \in {"STHREAD", "SVFDONE", "SNOWAIT", "STRC"} : Is(q, f)' <=> Is(q, f)
      /\ \A q \in Proc \ {p} : Is(q, "SVFORK")' <=> Is(q, "SVFORK")
      /\ ~Is(p, "SVFORK")'
  BY <1>1 DEF Is, TypeOK
<1>4. \A q \in Proc : Grown(q)' <=> Grown(q)
  BY <1>2 DEF Grown, Woke
<1>a. TypeOK'
  <2>1. \A q \in Proc : /\ stat'[q] = "SSLEEP" => chan'[q] # None
                        /\ chan'[q] # None => stat'[q] \in {"SSLEEP", "SSTOP"}
    BY <1>2, ProcessAssumption DEF TypeOK, Woke
  <2> QED BY <1>1, <1>2, <2>1 DEF TypeOK
<1>b. Linked'
  BY <1>2, <1>3, <1>4, LinkedFrame DEF Grown, Woke
<1>c. Placed' /\ FirstPlaced'
  BY <1>0, <1>1, <1>2, <1>3, ProcessAssumption DEF Placed, FirstPlaced, Relvm, Grown, Woke
<1>d. Duplicating'
  BY <1>1, <1>2, DuplicatingFrame DEF FirstPlaced, Relvm, Grown, Woke
<1>e. Lent'
  <2>1. \A q \in Proc : Borrows(q)' <=> Borrows(q)
    BY <1>0, <1>1, <1>3 DEF Borrows, Is
  <2>2. \A q \in Proc : Borrows(q) => parent[q] \in Proc /\ (parent[q] # p)
    BY DEF Lent, Linked, Kid
  <2>3. \A q \in Proc : stat'[q] \notin {"none", "SZOMB"} <=> stat[q] \notin {"none", "SZOMB"}
    BY <1>2 DEF Grown, Woke
  <2> QED BY <1>0, <1>1, <1>3, <1>4, <2>1, <2>2, <2>3 DEF Lent, Relvm
<1>f. Housed'
  <2>1. \A q \in Proc : Is(q, "STHREAD") => parent[q] \in Proc \ {p}
    BY DEF Placed, Linked, Kid, Threads
  <2>2. \A q \in Proc : Is(q, "SVFORK") => parent[q] \in Proc \ {p}
    BY DEF Lent, Linked, Kid, Borrows
  <2>3. space'[p] = None /\ \A q \in Proc \ {p} : space'[q] = space[q]
    BY <1>1 DEF TypeOK
  <2>4. \A s \in Space : s \in spaces' <=> \E q \in Proc : Grown(q)' /\ space'[q] = s
    BY <1>0, <1>1, <1>4, <2>3, ProcessAssumption DEF Housed, Space
  <2>6. \A r, q \in Proc :
          /\ Grown(r)' /\ Grown(q)' /\ r # q
          /\ space'[r] = space'[q] /\ space'[r] # None
          /\ ~Is(r, "STHREAD")' /\ ~Is(q, "STHREAD")'
        => Is(r, "SVFORK")' \/ Is(q, "SVFORK")'
    BY <1>3, <1>4, <2>3 DEF Housed
  <2>7. \A q \in Proc : Grown(q)' =>
          /\ space'[q] = None <=> pc'[q] \in Relvm \cup {"exit_last"}
          /\ Is(q, "STHREAD")' \/ Is(q, "SVFORK")' => space'[q] = space'[parent'[q]]
    BY <1>0, <1>1, <1>3, <1>4, <2>1, <2>2, <2>3 DEF Housed, Relvm
  <2>8. \A q \in Proc : Is(q, "STHREAD")' => pc'[parent'[q]] \notin Relvm \cup {"exit", "exit_last"}
    BY <1>1, <1>3, <2>1 DEF Housed
  <2> QED BY <2>4, <2>6, <2>7, <2>8 DEF Housed
<1>g. Awaiting'
  BY <1>0, <1>1, <1>2, <1>3 DEF Awaiting, Relvm, Lent, Placed, Woke
<1> QED BY <1>a, <1>b, <1>c, <1>d, <1>e, <1>f, <1>g

LEMMA relvmHolds ==
  ASSUME IInv, NEW p \in Proc, stat[p] = "SRUN", pc[p] \in {"user", "exit"},
         Threads(p) = {}, ~Is(p, "STHREAD"), relvm(p),
         UNCHANGED <<killed, wcode, tree, arg>>
  PROVE  IInv'
<1>1. CASE Is(p, "SVFORK")
  BY <1>1, GiveBackHolds
<1>2. CASE ~Is(p, "SVFORK")
  <2>1. space[p] # None /\ Grown(p)
    BY DEF IInv, Housed, Grown, Relvm
  <2>2. \A q \in Proc : Grown(q) /\ space[q] = space[p] => q = p
    BY <1>2, <2>1, Alone
  <2>3. \A s \in Space : s \in spaces \ {space[p]} <=> \E q \in Proc \ {p} : Grown(q) /\ space[q] = s
    BY <2>1, <2>2 DEF IInv, Housed
  <2>4. Leaving(p, spaces \ {space[p]})
    BY <1>2, <2>3 DEF Leaving, IInv, TypeOK
  <2>5. /\ AfterRelvm(p, spaces \ {space[p]})
        /\ flag' = [flag EXCEPT ![p] = ExecFlags(p, @)]
        /\ UNCHANGED <<stat, chan>>
    BY <1>2 DEF relvm, Borrowed
  <2>6. p = proc_init => pc[p] = "user"
    BY DEF IInv, FirstPlaced
  <2>7. pc[p] \notin Relvm
    BY DEF Relvm
  <2> QED BY <2>4, <2>5, <2>6, <2>7, AfterRelvmHolds
<1> QED BY <1>1, <1>2

LEMMA execHolds ==
  ASSUME Plain, IInv, NEW p \in Proc, exec(p)
  PROVE  IInv'
<1>1. /\ stat[p] = "SRUN" /\ pc[p] = "user" /\ Threads(p) = {} /\ ~Is(p, "STHREAD")
      /\ relvm(p) /\ UNCHANGED <<killed, wcode, tree, arg>>
  BY DEF exec, InUser, At
<1> QED BY <1>1, relvmHolds

LEMMA ExitRelvmHolds ==
  ASSUME IInv, NEW p \in Proc, ExitRelvm(p)
  PROVE  IInv'
<1>1. /\ stat[p] = "SRUN" /\ pc[p] = "exit"
      /\ relvm(p) /\ UNCHANGED <<killed, wcode, tree, arg>>
  BY DEF ExitRelvm, At
<1>2. ~Is(p, "STHREAD")
  BY <1>1 DEF IInv, Placed
<1>3. Threads(p) = {}
  BY <1>1, NoThreads DEF HousePlaces
<1> QED BY <1>1, <1>2, <1>3, relvmHolds

-----------------------------------------------------------------------------
(* Structures that are freed, and made.                                    *)

\* Those of Z, who have no children, go.
LEMMA LinkedFree ==
  ASSUME Linked, NEW Z \in SUBSET Kids,
         \A q \in Proc, r \in Z : Kid(q) => parent[q] # r /\ nextofkin[q] # r,
         \A q \in Proc :
           /\ stat'[q] = "none" <=> stat[q] = "none" \/ q \in Z
           /\ q \notin Z => /\ Grown(q) => Grown(q)'
                            /\ parent'[q] = parent[q]
                            /\ nextofkin'[q] = nextofkin[q]
           /\ Is(q, "STHREAD")' => Is(q, "STHREAD"),
         \A p \in Proc \ Z, q \in Proc :
           /\ q \in child'[p] <=> q \in child[p] /\ ~(q \in Z /\ parent[q] = p)
           /\ q \in orphan'[p] <=> q \in orphan[p] /\ ~(q \in Z /\ nextofkin[q] = p)
  PROVE  Linked'
<1>1. \A q \in Proc : Kid(q)' <=> Kid(q) /\ q \notin Z
  BY DEF Kid
<1>2. \A q \in Proc \ Z : MayHaveKids(q) => MayHaveKids(q)'
  BY DEF MayHaveKids
<1>3. Kids' \subseteq Kids /\ \A q \in Kids' : parent'[q] = parent[q] /\ nextofkin'[q] = nextofkin[q]
  BY <1>1 DEF Kids
<1>4. Forest(parent, Kids)'
  <2>1. Forest(parent', Kids')
    BY <1>3, ForestSub DEF Linked
  <2> QED BY <2>1 DEF Forest
<1>5. Forest(nextofkin, Kids)'
  <2>1. Forest(nextofkin', Kids')
    BY <1>3, ForestSub DEF Linked
  <2> QED BY <2>1 DEF Forest
<1>6. \A q \in Proc : Kid(q)' =>
        /\ parent'[q] \in Proc /\ MayHaveKids(parent[q])'
        /\ nextofkin'[q] \in Proc /\ MayHaveKids(nextofkin[q])'
  BY <1>1, <1>2 DEF Linked
<1>7. \A p, q \in Proc : stat'[p] # "none" =>
        /\ q \in child'[p] <=> Kid(q)' /\ parent'[q] = p
        /\ q \in orphan'[p] <=> Kid(q)' /\ nextofkin'[q] = p
  BY <1>1 DEF Linked
<1> QED BY <1>4, <1>5, <1>6, <1>7 DEF Linked

\* freeproc() for zombies.
LEMMA ZombiesFreed ==
  ASSUME IInv, NEW Z \in SUBSET Proc, \A z \in Z : stat[z] = "SZOMB",
         freeproc(Z), UNCHANGED <<chan, mem>>,
         NEW p \in Proc, stat[p] = "SRUN", pc[p] \in {"user", "waitid"},
         \A q \in Proc \ {p} : pc'[q] = pc[q] /\ arg'[q] = arg[q],
         pc'[p] = "user", pc' \in [Proc -> Places],
         arg' \in [Proc -> Proc \cup {P_ALL, None}],
         killed' \subseteq Proc,
         \A q \in Z : flag'[q] = {},
         \A q \in Proc \ Z, f \in {"STHREAD", "SVFORK", "SVFDONE", "STRC"} : f \in flag'[q] <=> f \in flag[q],
         flag' \in [Proc -> SUBSET {"STHREAD", "SVFORK", "SVFDONE", "SNOWAIT", "STRC"}]
  PROVE  IInv'
<1> USE DEF IInv, Clear
<1>0. \A z \in Z : /\ z # proc_init /\ flag[z] \cap {"STHREAD", "SVFORK", "SVFDONE"} = {}
                   /\ ~Grown(z) /\ pc[z] = "user"
  BY DEF FirstPlaced, Placed, Lent, Borrows, Is, Grown, Relvm
<1>1. \A q \in Proc, f \in {"STHREAD", "SVFORK", "SVFDONE"} : Is(q, f)' <=> Is(q, f)
  BY <1>0 DEF Is
<1>2. /\ \A q \in Proc \ Z : /\ stat'[q] = stat[q] /\ wcode'[q] = wcode[q]
                             /\ parent'[q] = parent[q] /\ nextofkin'[q] = nextofkin[q]
      /\ \A q \in Z : stat'[q] = "none" /\ wcode'[q] = None
  BY DEF freeproc
<1>a. TypeOK'
  <2>1. /\ stat' \in [Proc -> Stats] /\ wcode' \in [Proc -> {"exited", "trapped", None}]
        /\ parent' \in [Proc -> Proc \cup {None}] /\ nextofkin' \in [Proc -> Proc \cup {None}]
        /\ child' \in [Proc -> SUBSET Proc] /\ orphan' \in [Proc -> SUBSET Proc]
    BY DEF freeproc, TypeOK, Stats
  <2>2. \A q \in Proc : /\ stat'[q] = "SSLEEP" => chan'[q] # None
                        /\ chan'[q] # None => stat'[q] \in {"SSLEEP", "SSTOP"}
    BY <1>0, <1>2 DEF TypeOK
  <2> QED BY <2>1, <2>2 DEF TypeOK, mem
<1>b. Linked'
  <2>1. Z \in SUBSET Kids
    BY <1>0 DEF Kids, Kid
  <2>2. \A q \in Proc, r \in Z : Kid(q) => parent[q] # r /\ nextofkin[q] # r
    BY <1>0 DEF Linked, MayHaveKids
  <2>3. \A q \in Proc :
           /\ stat'[q] = "none" <=> stat[q] = "none" \/ q \in Z
           /\ q \notin Z => /\ Grown(q) => Grown(q)'
                            /\ parent'[q] = parent[q]
                            /\ nextofkin'[q] = nextofkin[q]
           /\ Is(q, "STHREAD")' => Is(q, "STHREAD")
    BY <1>1, <1>2 DEF Grown
  <2>4. \A r \in Proc \ Z, q \in Proc :
           /\ q \in child'[r] <=> q \in child[r] /\ ~(q \in Z /\ parent[q] = r)
           /\ q \in orphan'[r] <=> q \in orphan[r] /\ ~(q \in Z /\ nextofkin[q] = r)
    BY DEF freeproc
  <2> QED BY <2>1, <2>2, <2>3, <2>4, LinkedFree
<1>c. Placed' /\ FirstPlaced'
  <2>1. Placed'
    BY <1>0, <1>1, <1>2, ProcessAssumption DEF Placed, Is, TypeOK
  <2>2. FirstPlaced'
    BY <1>0, <1>2, ProcessAssumption DEF FirstPlaced, TypeOK
  <2> QED BY <2>1, <2>2
<1>d. Duplicating'
  BY <1>0, <1>2, DuplicatingFrame DEF FirstPlaced
<1>e. Lent'
  <2>1. \A q \in Proc : flag'[q] \cap {"SVFORK", "SVFDONE"} = flag[q] \cap {"SVFORK", "SVFDONE"}
    BY <1>1 DEF Is
  <2> QED BY <1>0, <1>2, <2>1, LentFrame DEF Grown, Relvm
<1>f. Housed'
  BY <1>0, <1>1, <1>2, HousedFrame DEF Grown, HousePlaces, Relvm
<1>g. Awaiting'
  <2>1. \A q \in Proc \ Z : child'[q] \subseteq child[q] /\ \A c \in child[q] : Is(c, "STHREAD") => c \in child'[q]
    BY <1>0 DEF freeproc, Is
  <2>2. p \notin Z /\ stat'[p] = "SRUN"
    BY <1>2
  <2>3. \A q \in Proc : stat'[q] = "SSLEEP" => q \notin Z /\ q # p /\ stat[q] = "SSLEEP"
    BY <1>2, <2>2
  <2> QED BY <1>1, <1>2, <2>1, <2>3, ProcessAssumption DEF Awaiting, Lent, Relvm
<1> QED BY <1>a, <1>b, <1>c, <1>d, <1>e, <1>f, <1>g

LEMMA WaitReapsHolds ==
  ASSUME IInv, NEW p \in Proc, WaitReaps(p)
  PROVE  IInv'
<1>0. PICK c \in Matching(p, arg[p]) :
         wcode[c] = "exited" /\ freeproc({c}) /\ flag' = Clear(flag, {c}, {})
  BY DEF WaitReaps
<1>1. c \in Proc /\ stat[c] = "SZOMB"
  BY <1>0 DEF Matching, IInv, Placed, TypeOK
<1>2. /\ stat[p] = "SRUN" /\ pc[p] = "waitid" /\ UNCHANGED <<chan, killed, mem>>
      /\ pc' = [pc EXCEPT ![p] = "user"] /\ arg' = [arg EXCEPT ![p] = None]
  BY DEF WaitReaps, WaitReturns, At
<1>3. /\ pc' \in [Proc -> Places] /\ arg' \in [Proc -> Proc \cup {P_ALL, None}]
      /\ killed' \subseteq Proc /\ pc'[p] = "user"
      /\ \A q \in Proc \ {p} : pc'[q] = pc[q] /\ arg'[q] = arg[q]
  BY <1>2 DEF IInv, TypeOK, Places
<1>4. /\ flag' \in [Proc -> SUBSET {"STHREAD", "SVFORK", "SVFDONE", "SNOWAIT", "STRC"}]
      /\ flag'[c] = {} /\ \A q \in Proc \ {c} : flag'[q] = flag[q]
  BY <1>0, <1>1 DEF IInv, TypeOK, Clear
<1> QED BY <1>0, <1>1, <1>2, <1>3, <1>4, ZombiesFreed

LEMMA setsigactHolds ==
  ASSUME IInv, NEW p \in Proc, NEW nowait \in BOOLEAN, setsigact(p, nowait)
  PROVE  IInv'
<1> DEFINE Z == {c \in child[p] : nowait /\ stat[c] = "SZOMB"}
<1>1. /\ stat[p] = "SRUN" /\ pc[p] = "user" /\ UNCHANGED <<chan, killed, mem, pc, arg>>
      /\ freeproc(Z)
      /\ flag' = [Clear(flag, Z, {}) EXCEPT ![p] =
                    IF nowait THEN @ \cup {"SNOWAIT"} ELSE @ \ {"SNOWAIT"}]
  BY DEF setsigact, InUser, At
<1>2. Z \in SUBSET Proc /\ p \notin Z /\ \A z \in Z : stat[z] = "SZOMB"
  BY <1>1 DEF IInv, TypeOK
<1> HIDE DEF Z
<1>3. /\ flag' \in [Proc -> SUBSET {"STHREAD", "SVFORK", "SVFDONE", "SNOWAIT", "STRC"}]
      /\ \A q \in Z : flag'[q] = {}
      /\ \A q \in Proc \ (Z \cup {p}) : flag'[q] = flag[q]
      /\ \A f \in {"STHREAD", "SVFORK", "SVFDONE", "STRC"} : f \in flag'[p] <=> f \in flag[p]
  BY <1>1, <1>2 DEF IInv, TypeOK, Clear
<1>4. \A q \in Proc \ Z, f \in {"STHREAD", "SVFORK", "SVFDONE", "STRC"} : f \in flag'[q] <=> f \in flag[q]
  BY <1>3
<1>5. /\ pc' \in [Proc -> Places] /\ arg' \in [Proc -> Proc \cup {P_ALL, None}]
      /\ killed' \subseteq Proc
  BY <1>1 DEF IInv, TypeOK
<1> QED BY <1>1, <1>2, <1>3, <1>4, <1>5, ZombiesFreed

LEMMA ProcdupFailsHolds ==
  ASSUME IInv, NEW p \in Proc, ProcdupFails(p)
  PROVE  IInv'
<1> USE DEF IInv
<1>0. /\ stat[p] = "SRUN" /\ pc[p] = "procdup" /\ UNCHANGED <<chan, mem>>
      /\ freeproc({arg[p]}) /\ flag' = Clear(flag, {arg[p]}, {}) /\ killed' = killed \ {arg[p]}
      /\ pc' = [pc EXCEPT ![p] = "user"] /\ arg' = [arg EXCEPT ![p] = None]
  BY DEF ProcdupFails, At
<1>1. PICK c \in Proc : /\ c = arg[p] /\ stat[c] = "SIDL" /\ parent[c] = p /\ c # p
                        /\ pc[c] = "user" /\ c # proc_init /\ ~Is(c, "SVFDONE")
  BY <1>0 DEF Duplicating, Placed, FirstPlaced, Lent, Relvm
<1>2. /\ \A q \in Proc \ {c} : /\ stat'[q] = stat[q] /\ wcode'[q] = wcode[q] /\ flag'[q] = flag[q]
                               /\ parent'[q] = parent[q] /\ nextofkin'[q] = nextofkin[q]
      /\ stat'[c] = "none" /\ wcode'[c] = None /\ flag'[c] = {}
  BY <1>0, <1>1 DEF freeproc, Clear, TypeOK
<1>3. pc'[p] = "user" /\ \A q \in Proc \ {p} : pc'[q] = pc[q] /\ arg'[q] = arg[q]
  BY <1>0 DEF TypeOK
<1>5. chan' = chan /\ stat[p] = "SRUN" /\ arg'[p] = None
  BY <1>0 DEF TypeOK
<1>4. \A q \in Proc : Grown(q)' <=> Grown(q)
  BY <1>1, <1>2 DEF Grown
<1>a. TypeOK'
  <2>1. /\ stat' \in [Proc -> Stats] /\ wcode' \in [Proc -> {"exited", "trapped", None}]
        /\ parent' \in [Proc -> Proc \cup {None}] /\ nextofkin' \in [Proc -> Proc \cup {None}]
        /\ child' \in [Proc -> SUBSET Proc] /\ orphan' \in [Proc -> SUBSET Proc]
    BY <1>0 DEF freeproc, Clear, TypeOK, Stats
  <2>2. \A q \in Proc : /\ stat'[q] = "SSLEEP" => chan'[q] # None
                        /\ chan'[q] # None => stat'[q] \in {"SSLEEP", "SSTOP"}
    BY <1>0, <1>1, <1>2 DEF TypeOK
  <2>3. /\ flag' \in [Proc -> SUBSET {"STHREAD", "SVFORK", "SVFDONE", "SNOWAIT", "STRC"}]
        /\ pc' \in [Proc -> Places] /\ arg' \in [Proc -> Proc \cup {P_ALL, None}]
        /\ killed' \subseteq Proc
    BY <1>0 DEF TypeOK, Clear, Places
  <2> QED BY <1>0, <2>1, <2>2, <2>3 DEF TypeOK, mem
<1>b. Linked'
  <2>1. {c} \in SUBSET Kids
    BY <1>1 DEF Kids, Kid
  <2>2. \A q \in Proc, r \in {c} : Kid(q) => parent[q] # r /\ nextofkin[q] # r
    BY <1>1 DEF Linked, MayHaveKids, Grown
  <2>3. \A q \in Proc :
           /\ stat'[q] = "none" <=> stat[q] = "none" \/ q \in {c}
           /\ q \notin {c} => /\ Grown(q) => Grown(q)'
                              /\ parent'[q] = parent[q]
                              /\ nextofkin'[q] = nextofkin[q]
           /\ Is(q, "STHREAD")' => Is(q, "STHREAD")
    BY <1>2, <1>4 DEF Is
  <2>4. \A r \in Proc \ {c}, q \in Proc :
           /\ q \in child'[r] <=> q \in child[r] /\ ~(q \in {c} /\ parent[q] = r)
           /\ q \in orphan'[r] <=> q \in orphan[r] /\ ~(q \in {c} /\ nextofkin[q] = r)
    BY <1>0, <1>1 DEF freeproc
  <2> QED BY <2>1, <2>2, <2>3, <2>4, LinkedFree
<1>c. Placed' /\ FirstPlaced'
  <2>1. Placed'
    <3>1. ASSUME NEW q \in Proc \ {p, c} PROVE Placed!(q)'
      BY <1>2, <1>3, <1>5 DEF Placed, Is
    <3>2. Placed!(c)'
      BY <1>1, <1>2, <1>3, ProcessAssumption DEF Is
    <3>3. Placed!(p)'
      BY <1>1, <1>2, <1>3, <1>5 DEF Placed, Is
    <3> QED BY <3>1, <3>2, <3>3 DEF Placed
  <2>2. FirstPlaced'
    BY <1>1, <1>2, <1>3, ProcessAssumption DEF FirstPlaced
  <2> QED BY <2>1, <2>2
<1>d. Duplicating'
  <2>1. \A d \in Proc \ {c} : stat[d] = "SIDL" => parent[d] \in Proc \ {p}
    BY <1>0, <1>1 DEF Duplicating, Linked, Kid, FirstPlaced
  <2>2. \A q \in Proc : stat[c] = "SIDL" /\ pc[q] = "procdup" /\ q # p => arg[q] # c
    BY <1>1 DEF Duplicating
  <2> QED BY <1>1, <1>2, <1>3, <2>1, <2>2 DEF Duplicating
<1>e. Lent'
  <2>1. \A q \in Proc \ {c} : Borrows(q)' <=> Borrows(q)
    BY <1>0, <1>2, <1>3 DEF Borrows, Is, Relvm
  <2>2. ~Borrows(c)'
    BY <1>1, <1>2, <1>3 DEF Borrows, Is, Relvm
  <2>3. \A q \in Proc \ {c} : Borrows(q) => parent[q] \in Proc \ {p}
    BY <1>0, <1>1 DEF Lent, Linked, Kid
  <2>4. \A q \in Proc : pc[q] = "vfwait" => arg[q] # c
    BY <1>1 DEF Lent, Grown
  <2>5. \A q \in Proc \ {c}, f \in {"SVFORK", "SVFDONE"} : Is(q, f)' <=> Is(q, f)
    BY <1>2 DEF Is
  <2>6. ~Is(c, "SVFORK")' /\ ~Is(c, "SVFDONE")'
    BY <1>2 DEF Is
  <2>7. \A q \in Proc : pc'[q] = "vfwait" => q # p /\ pc[q] = "vfwait"
    BY <1>3
  <2>8. Lent!1'
    BY <1>2, <1>3, <2>1, <2>2, <2>3 DEF Lent
  <2>9. Lent!2'
    BY <1>2, <1>3, <1>4, <2>1, <2>4, <2>7 DEF Lent
  <2>10. Lent!3' /\ Lent!4'
    BY <1>0, <1>3, <2>5, <2>6 DEF Lent, Relvm
  <2> QED BY <2>8, <2>9, <2>10 DEF Lent
<1>f. Housed'
  <2>1. \A q \in Proc : Is(q, "STHREAD") => parent[q] \in Proc
    BY DEF Placed, Linked, Kid
  <2>2. \A q \in Proc \ {c}, f \in {"STHREAD", "SVFORK"} : Is(q, f)' <=> Is(q, f)
    BY <1>2 DEF Is
  <2>3. ~Is(c, "STHREAD")' /\ ~Grown(c)
    BY <1>1, <1>2 DEF Is, Grown
  <2> QED BY <1>0, <1>1, <1>2, <1>3, <1>4, <2>1, <2>2, <2>3 DEF Housed, mem, Relvm
<1>g. Awaiting'
  <2>1. \A q \in Proc : stat'[q] = "SSLEEP" => q \notin {c, p} /\ stat[q] = "SSLEEP"
    BY <1>0, <1>1, <1>2
  <2>2. \A q \in Proc \ {p, c}, d \in Proc : d \in child'[q] <=> d \in child[q]
    BY <1>0, <1>1 DEF freeproc
  <2>3. \A q \in Proc \ {p, c} : stat[q] # "none" => c \notin child[q]
    BY <1>1 DEF Linked
  <2>4. \A q \in Proc : pc[q] = "vfwait" => arg[q] \in Proc \ {c}
    BY <1>1 DEF Lent, Grown
  <2>5. \A q \in Proc \ {c}, f \in {"STHREAD", "SVFORK", "SVFDONE"} : Is(q, f)' <=> Is(q, f)
    BY <1>2 DEF Is
  <2> QED BY <1>2, <1>3, <2>1, <2>2, <2>3, <2>4, <2>5 DEF Awaiting, Relvm
<1> QED BY <1>a, <1>b, <1>c, <1>d, <1>e, <1>f, <1>g

LEMMA thread_exit_currentHolds ==
  ASSUME IInv, NEW p \in Proc, thread_exit_current(p)
  PROVE  IInv'
<1> USE DEF IInv
<1>0. PICK r \in Proc : /\ r = parent[p] /\ r # p /\ MayHaveKids(r) /\ nextofkin[p] \in Proc
                        /\ Is(p, "STHREAD") /\ Kid(p) /\ stat[p] = "SRUN" /\ pc[p] = "thread_exit"
                        /\ ~Is(p, "SVFORK") /\ ~Is(p, "SVFDONE") /\ ~Borrows(p)
  BY DEF thread_exit_current, At, Placed, Linked, Kid, MayHaveKids, Lent, Relvm, Borrows
<1>1. /\ pc' = [pc EXCEPT ![p] = "user"] /\ space' = [space EXCEPT ![p] = None]
      /\ flag' = Clear(flag, {p}, {}) /\ wcode' = Clear(wcode, {p}, None)
      /\ parent' = Clear(parent, {p}, None) /\ nextofkin' = Clear(nextofkin, {p}, None)
      /\ child' = [child EXCEPT ![r] = @ \ {p}]
      /\ orphan' = [orphan EXCEPT ![nextofkin[p]] = @ \ {p}]
      /\ UNCHANGED <<killed, arg, spaces>>
  BY <1>0 DEF thread_exit_current
<1>2. /\ \A q \in Proc \ {p} : /\ pc'[q] = pc[q] /\ wcode'[q] = wcode[q] /\ flag'[q] = flag[q]
                               /\ parent'[q] = parent[q] /\ nextofkin'[q] = nextofkin[q]
                               /\ space'[q] = space[q]
      /\ pc'[p] = "user" /\ wcode'[p] = None /\ flag'[p] = {} /\ space'[p] = None
  BY <1>1 DEF Clear, TypeOK
<1>3. /\ \A q \in Proc \ {p} :
           IF chan[q] = r THEN Woke(q)
                          ELSE stat'[q] = stat[q] /\ chan'[q] = chan[q]
      /\ stat'[p] = "none" /\ chan'[p] = None
      /\ stat' \in [Proc -> Stats] /\ chan' \in [Proc -> Proc \cup {WAITER, None}]
  <2>1. /\ stat' = [q \in Proc |-> IF q \in Running(Asleep({r}), {}) THEN "SRUN"
                                   ELSE IF q = p THEN "none" ELSE stat[q]]
        /\ chan' = [q \in Proc |-> IF q \in Asleep({r}) THEN None ELSE chan[q]]
    BY <1>0 DEF thread_exit_current, SetRun, ReleaseChannel, Clear
  <2>2. chan[p] = None
    BY <1>0 DEF TypeOK
  <2>3. stat \in [Proc -> Stats] /\ chan \in [Proc -> Proc \cup {WAITER, None}]
    BY DEF TypeOK
  <2> QED BY <1>0, <2>1, <2>2, <2>3, OnQueue, ProcessAssumption DEF Stats, Woke
<1>7. UNCHANGED <<killed, arg, spaces>>
  BY <1>1
<1>4. \A q \in Proc \ {p} : Grown(q)' <=> Grown(q)
  BY <1>3 DEF Grown, Woke
<1>5. \A q \in Proc : Kid(q) => parent[q] # p /\ nextofkin[q] # p
  BY <1>0 DEF Linked, MayHaveKids
<1>6. \A q \in Proc \ {p}, f \in {"STHREAD", "SVFORK", "SVFDONE"} : Is(q, f)' <=> Is(q, f)
  BY <1>2 DEF Is
<1>a. TypeOK'
  <2>1. \A q \in Proc : /\ stat'[q] = "SSLEEP" => chan'[q] # None
                        /\ chan'[q] # None => stat'[q] \in {"SSLEEP", "SSTOP"}
    BY <1>3 DEF TypeOK, Woke
  <2>2. /\ wcode' \in [Proc -> {"exited", "trapped", None}]
        /\ parent' \in [Proc -> Proc \cup {None}] /\ nextofkin' \in [Proc -> Proc \cup {None}]
        /\ child' \in [Proc -> SUBSET Proc] /\ orphan' \in [Proc -> SUBSET Proc]
    BY <1>1 DEF Clear, TypeOK
  <2>3. /\ flag' \in [Proc -> SUBSET {"STHREAD", "SVFORK", "SVFDONE", "SNOWAIT", "STRC"}]
        /\ pc' \in [Proc -> Places] /\ space' \in [Proc -> Space \cup {None}]
    BY <1>1 DEF TypeOK, Clear, Places
  <2> QED BY <1>1, <1>3, <2>1, <2>2, <2>3 DEF TypeOK
<1>b. Linked'
  <2>1. {p} \in SUBSET Kids
    BY <1>0 DEF Kids
  <2>2. \A q \in Proc, x \in {p} : Kid(q) => parent[q] # x /\ nextofkin[q] # x
    BY <1>5
  <2>3. \A q \in Proc :
           /\ stat'[q] = "none" <=> stat[q] = "none" \/ q \in {p}
           /\ q \notin {p} => /\ Grown(q) => Grown(q)'
                              /\ parent'[q] = parent[q]
                              /\ nextofkin'[q] = nextofkin[q]
           /\ Is(q, "STHREAD")' => Is(q, "STHREAD")
    BY <1>0, <1>2, <1>3, <1>4, <1>6 DEF Grown, Woke
  <2>4. \A x \in Proc \ {p}, q \in Proc :
           /\ q \in child'[x] <=> q \in child[x] /\ ~(q \in {p} /\ parent[q] = x)
           /\ q \in orphan'[x] <=> q \in orphan[x] /\ ~(q \in {p} /\ nextofkin[q] = x)
    BY <1>0, <1>1 DEF TypeOK
  <2> QED BY <2>1, <2>2, <2>3, <2>4, LinkedFree
<1>c. Placed' /\ FirstPlaced'
  <2>1. Placed'
    <3>1. ASSUME NEW q \in Proc \ {p} PROVE Placed!(q)'
      BY <1>2, <1>3, <1>7 DEF Placed, Is, Grown, Woke
    <3>2. Placed!(p)'
      BY <1>2, <1>3, ProcessAssumption DEF Is, WaitChannel
    <3> QED BY <3>1, <3>2 DEF Placed
  <2>2. FirstPlaced'
    BY <1>0, <1>2, <1>3, ProcessAssumption DEF FirstPlaced, Kid, Woke, Grown
  <2> QED BY <2>1, <2>2
<1>d. Duplicating'
  <2>1. \A d \in Proc : stat'[d] = "SIDL" => stat[d] = "SIDL" /\ d # p /\ parent[d] \in Proc \ {p}
    BY <1>3, <1>5 DEF Duplicating, Linked, Kid, FirstPlaced, Woke, Grown
  <2>2. \A q \in Proc : pc'[q] = "procdup" => q # p /\ pc[q] = "procdup"
    BY <1>2
  <2>3. \A q \in Proc : stat[q] = "SIDL" => stat'[q] = "SIDL"
    BY <1>0, <1>3 DEF Grown, Woke
  <2>4. \A d \in Proc : stat'[d] = "SIDL" => parent'[d] = parent[d] /\ parent[d] \in Proc \ {p}
    BY <1>2, <2>1
  <2>5. Duplicating!1'
    <3>1. ASSUME NEW q \in Proc, pc'[q] = "procdup" PROVE Duplicating!1!(q)'
      <4>1. arg[q] \in Proc /\ stat[arg[q]] = "SIDL" /\ parent[arg[q]] = q
        BY <2>2, <3>1 DEF Duplicating
      <4> QED BY <1>1, <2>3, <2>4, <4>1
    <3> QED BY <3>1
  <2>6. Duplicating!2'
    BY <1>2, <1>7, <2>1, <2>4 DEF Duplicating
  <2> QED BY <2>5, <2>6 DEF Duplicating
<1>e. Lent'
  <2>1. \A q \in Proc \ {p} : Borrows(q)' <=> Borrows(q)
    BY <1>2, <1>6 DEF Borrows, Is
  <2>2. ~Borrows(p)' /\ ~Is(p, "SVFORK")' /\ ~Is(p, "SVFDONE")'
    BY <1>2 DEF Borrows, Is, Relvm
  <2>3. \A q \in Proc : Borrows(q) => parent[q] \in Proc \ {p}
    BY <1>5 DEF Lent, Linked, Kid
  <2>4. \A q \in Proc : pc[q] = "vfwait" => arg[q] # p
    BY <1>0 DEF Lent
  <2>5. \A q \in Proc \ {p} : stat[q] \notin {"none", "SZOMB"} => stat'[q] \notin {"none", "SZOMB"}
    BY <1>3 DEF Woke
  <2>6. Lent!1'
    BY <1>2, <1>7, <2>1, <2>2, <2>3, <2>5 DEF Lent
  <2>7. Lent!2'
    BY <1>2, <1>4, <1>7, <2>1, <2>4 DEF Lent
  <2>8. Lent!3' /\ Lent!4'
    BY <1>2, <1>6, <2>2 DEF Lent
  <2> QED BY <2>6, <2>7, <2>8 DEF Lent
<1>f. Housed'
  <2>1. \A q \in Proc : Is(q, "STHREAD") => parent[q] \in Proc \ {p}
    BY <1>5 DEF Placed, Linked, Kid
  <2>2. ~Is(p, "STHREAD")' /\ ~Grown(p)' /\ Grown(p)
    BY <1>0, <1>2, <1>3 DEF Is, Grown, Woke
  <2>3. space[p] = space[r] /\ Grown(r)
    BY <1>0, <2>2 DEF Housed, MayHaveKids
  <2>4. \A s \in Space : s \in spaces' <=> \E q \in Proc : Grown(q)' /\ space'[q] = s
    BY <1>0, <1>1, <1>2, <1>4, <2>2, <2>3 DEF Housed
  <2>5. \A q \in Proc : Is(q, "SVFORK") => parent[q] \in Proc \ {p}
    BY <1>5 DEF Lent, Borrows, Linked, Kid
  <2> QED BY <1>2, <1>4, <1>6, <2>1, <2>2, <2>4, <2>5 DEF Housed
<1>g. Awaiting'
  <2>1. \A q \in Proc : stat'[q] = "SSLEEP" => q # p /\ stat[q] = "SSLEEP" /\ chan[q] # r
    BY <1>3 DEF Woke
  <2>2. \A q \in Proc \ {r} : child'[q] = child[q]
    BY <1>1
  <2>3. child'[r] \subseteq child[r] /\ child[r] \subseteq Proc
    BY <1>1 DEF TypeOK
  <2>4. \A q \in Proc \ {r} : stat[q] # "none" => p \notin child[q]
    BY <1>0 DEF Linked
  <2>5. \A q \in Proc : pc[q] = "vfwait" => arg[q] \in Proc \ {p}
    BY <1>0 DEF Lent
  <2>6. stat'[r] = "SSLEEP" => pc[r] # "exit_threads"
    BY <2>1 DEF Placed
  <2>7. ASSUME NEW q \in Proc, stat'[q] = "SSLEEP", pc'[q] = "waitid",
               NEW c \in Proc, c \in child'[q], ~Is(c, "STHREAD")', arg'[q] \in {P_ALL, c}
        PROVE  wcode'[c] # "exited"
    <3>1. q # p /\ stat[q] = "SSLEEP" /\ pc[q] = "waitid" /\ arg'[q] = arg[q] /\ c \in child[q]
      BY <1>1, <1>2, <2>1, <2>2, <2>3, <2>7
    <3>2. CASE c = p
      BY <1>2, <3>2, ProcessAssumption
    <3>3. CASE c # p
      BY <1>2, <1>6, <2>7, <3>1, <3>3 DEF Awaiting
    <3> QED BY <3>2, <3>3
  <2>8. ASSUME NEW q \in Proc, stat'[q] = "SSLEEP", pc'[q] = "exit_threads"
        PROVE  \E x \in Proc : x \in child'[q] /\ Is(x, "STHREAD")'
    <3>1. q \notin {p, r} /\ stat[q] = "SSLEEP" /\ pc[q] = "exit_threads"
      BY <1>2, <2>1, <2>6, <2>8
    <3>2. PICK x \in Proc : x \in child[q] /\ Is(x, "STHREAD")
      BY <3>1 DEF Awaiting
    <3> QED BY <1>6, <2>2, <2>4, <3>1, <3>2
  <2>9. ASSUME NEW q \in Proc, stat'[q] = "SSLEEP"
        PROVE  /\ pc'[q] = "vfwait" => Is(arg[q], "SVFORK")'
               /\ pc'[q] \in Relvm => ~Is(q, "SVFDONE")'
    <3>1. q # p /\ stat[q] = "SSLEEP" /\ pc'[q] = pc[q]
      BY <1>2, <2>1, <2>9
    <3>2. /\ pc[q] = "vfwait" => Is(arg[q], "SVFORK") /\ arg[q] \in Proc \ {p}
          /\ pc[q] \in Relvm => ~Is(q, "SVFDONE")
      BY <2>5, <3>1 DEF Awaiting
    <3> QED BY <1>6, <1>7, <3>1, <3>2 DEF Is
  <2>10. arg' = arg
    BY <1>1
  <2> QED BY <2>7, <2>8, <2>9, <2>10 DEF Awaiting
<1> QED BY <1>a, <1>b, <1>c, <1>d, <1>e, <1>f, <1>g

LEMMA newprocHolds ==
  ASSUME Plain, IInv, NEW p \in Proc, NEW c \in Proc, NEW kind \in Kinds, newproc(p, c, kind)
  PROVE  IInv'
<1> USE DEF IInv
<1>0. /\ stat[p] = "SRUN" /\ pc[p] = "user" /\ ~Is(p, "STHREAD") /\ stat[c] = "none"
      /\ c # p /\ c # proc_init /\ kind \in {{}, {"SVFORK"}, {"STHREAD"}}
      /\ chan[c] = None /\ pc[c] = "user" /\ ~Is(c, "SVFORK") /\ ~Is(c, "STHREAD")
  BY ProcessAssumption DEF newproc, InUser, At, FirstPlaced, TypeOK, Placed, Lent, Borrows
<1>1. /\ \A q \in Proc \ {c} : /\ stat'[q] = stat[q] /\ flag'[q] = flag[q] /\ parent'[q] = parent[q]
                               /\ nextofkin'[q] = nextofkin[q] /\ wcode'[q] = wcode[q]
      /\ stat'[c] = "SIDL" /\ parent'[c] = p /\ nextofkin'[c] = p /\ wcode'[c] = None
      /\ flag'[c] = kind \cup (flag[p] \cap {"SNOWAIT"})
  BY DEF newproc, TypeOK
<1>2. /\ \A q \in Proc \ {p, c} : /\ pc'[q] = pc[q] /\ arg'[q] = arg[q]
                                  /\ child'[q] = child[q] /\ orphan'[q] = orphan[q]
      /\ pc'[p] = "procdup" /\ arg'[p] = c /\ pc'[c] = "user"
      /\ child'[p] = child[p] \cup {c} /\ child'[c] = {}
      /\ orphan'[p] = orphan[p] \cup {c} /\ orphan'[c] = {}
  BY <1>0 DEF newproc, TypeOK
<1>3. chan' = chan /\ mem' = mem
  BY DEF newproc
<1>4. \A q \in Proc \ {c}, f \in {"STHREAD", "SVFORK", "SVFDONE"} : Is(q, f)' <=> Is(q, f)
  BY <1>1 DEF Is
<1>5. /\ ~Is(c, "SVFDONE")' /\ Is(c, "STHREAD")' => ~Is(c, "SVFORK")'
      /\ \A f : Is(c, f)' <=> f \in kind \cup (flag[p] \cap {"SNOWAIT"})
  BY <1>0, <1>1 DEF Is
<1>6. \A q \in Proc : Grown(q)' <=> Grown(q)
  BY <1>0, <1>1 DEF Grown
<1>7. \A q \in Proc : Kid(q) => parent[q] \in Proc \ {c} /\ nextofkin[q] \in Proc \ {c}
  BY <1>0 DEF Linked, MayHaveKids, Grown
<1>a. TypeOK'
  <2>1. /\ stat' \in [Proc -> Stats] /\ pc' \in [Proc -> Places] /\ wcode' \in [Proc -> {"exited", "trapped", None}]
        /\ parent' \in [Proc -> Proc \cup {None}] /\ nextofkin' \in [Proc -> Proc \cup {None}]
        /\ arg' \in [Proc -> Proc \cup {P_ALL, None}] /\ killed' \subseteq Proc
    BY DEF newproc, TypeOK, Stats, Places
  <2>2. child' \in [Proc -> SUBSET Proc] /\ orphan' \in [Proc -> SUBSET Proc]
    BY DEF newproc, TypeOK
  <2>3. flag' \in [Proc -> SUBSET {"STHREAD", "SVFORK", "SVFDONE", "SNOWAIT", "STRC"}]
    <3>1. kind \cup (flag[p] \cap {"SNOWAIT"}) \in SUBSET {"STHREAD", "SVFORK", "SVFDONE", "SNOWAIT", "STRC"}
      BY <1>0
    <3> QED BY <3>1 DEF newproc, TypeOK
  <2>4. \A q \in Proc : /\ stat'[q] = "SSLEEP" => chan'[q] # None
                        /\ chan'[q] # None => stat'[q] \in {"SSLEEP", "SSTOP"}
    BY <1>0, <1>1, <1>3 DEF TypeOK
  <2> QED BY <1>3, <2>1, <2>2, <2>3, <2>4 DEF TypeOK, mem
<1>b. Linked'
  <2>1. Kids' = Kids \cup {c} /\ c \notin Kids /\ \A q \in Proc : Kid(q)' <=> Kid(q) \/ q = c
    BY <1>0, <1>1 DEF Kids, Kid
  <2>2. Forest(parent, Kids)' /\ Forest(nextofkin, Kids)'
    <3>1. \A q \in Kids : /\ parent'[q] = parent[q] /\ parent[q] # c
                          /\ nextofkin'[q] = nextofkin[q] /\ nextofkin[q] # c
      BY <1>1, <1>7, <2>1 DEF Kids
    <3>2. parent'[c] # c /\ nextofkin'[c] # c
      BY <1>0, <1>1
    <3>3. Forest(parent', Kids \cup {c}) /\ Forest(nextofkin', Kids \cup {c})
      BY <2>1, <3>1, <3>2, ForestAdd DEF Linked
    <3> QED BY <2>1, <3>3 DEF Forest
  <2>3. \A q \in Proc \ {c} : MayHaveKids(q) => MayHaveKids(q)'
    BY <1>4, <1>6 DEF MayHaveKids
  <2>4. MayHaveKids(p)
    BY <1>0 DEF MayHaveKids, Grown
  <2>5. Linked!1'
    BY <1>0, <1>1, <1>7, <2>1, <2>3, <2>4 DEF Linked
  <2>6. Linked!2'
    <3>1. /\ ~Kid(c)
          /\ \A q \in Proc \ {c} : parent'[q] = parent[q] /\ nextofkin'[q] = nextofkin[q]
      BY <1>0, <1>1 DEF Kid
    <3>2. ASSUME NEW r \in Proc \ {p, c}, stat'[r] # "none", NEW q \in Proc
          PROVE  /\ q \in child'[r] <=> Kid(q)' /\ parent'[q] = r
                 /\ q \in orphan'[r] <=> Kid(q)' /\ nextofkin'[q] = r
      BY <1>1, <1>2, <2>1, <3>1, <3>2 DEF Linked
    <3>3. ASSUME NEW q \in Proc
          PROVE  /\ q \in child'[p] <=> Kid(q)' /\ parent'[q] = p
                 /\ q \in orphan'[p] <=> Kid(q)' /\ nextofkin'[q] = p
                 /\ q \in child'[c] <=> Kid(q)' /\ parent'[q] = c
                 /\ q \in orphan'[c] <=> Kid(q)' /\ nextofkin'[q] = c
      BY <1>0, <1>1, <1>2, <1>7, <2>1, <3>1 DEF Linked
    <3> QED BY <3>2, <3>3
  <2> QED BY <2>2, <2>5, <2>6 DEF Linked
<1>c. Placed' /\ FirstPlaced'
  <2>1. ASSUME NEW q \in Proc \ {p, c} PROVE Placed!(q)'
    BY <1>1, <1>2, <1>3 DEF Placed, Is
  <2>2. Placed!(c)'
    BY <1>0, <1>1, <1>2, <1>5, ProcessAssumption
  <2>3. Placed!(p)'
    BY <1>0, <1>1, <1>2, <1>4 DEF Placed
  <2>4. FirstPlaced'
    BY <1>0, <1>1, <1>2, ProcessAssumption DEF FirstPlaced
  <2> QED BY <2>1, <2>2, <2>3, <2>4 DEF Placed
<1>d. Duplicating'
  <2>1. \A q \in Proc : pc[q] = "procdup" => arg[q] # c
    BY <1>0 DEF Duplicating
  <2>2. \A d \in Proc : stat[d] = "SIDL" => parent[d] \in Proc \ {c, p}
    BY <1>0, <1>7 DEF Duplicating, FirstPlaced, Kid
  <2>3. Duplicating!1'
    BY <1>0, <1>1, <1>2, <2>1 DEF Duplicating
  <2>4. Duplicating!2'
    BY <1>0, <1>1, <1>2, <2>2 DEF Duplicating
  <2> QED BY <2>3, <2>4 DEF Duplicating
<1>e. Lent'
  <2>1. \A q \in Proc \ {c, p} : Borrows(q)' <=> Borrows(q)
    BY <1>2, <1>4 DEF Borrows
  <2>2. Borrows(p)' <=> Borrows(p)
    BY <1>0, <1>2, <1>4 DEF Borrows, Relvm
  <2>3. \A q \in Proc : Borrows(q) => q # c /\ parent[q] \in Proc \ {c, p}
    BY <1>0, <1>7 DEF Lent, Kid
  <2>4. Lent!1'
    BY <1>0, <1>1, <1>2, <2>1, <2>2, <2>3 DEF Lent
  <2>5. \A q \in Proc : pc'[q] = "vfwait" => q \notin {p, c} /\ pc[q] = "vfwait"
    BY <1>2
  <2>6. \A q \in Proc : pc[q] = "vfwait" => arg[q] \in Proc \ {c}
    BY <1>0 DEF Lent, Grown
  <2>7. Lent!2'
    BY <1>1, <1>2, <1>6, <2>1, <2>2, <2>5, <2>6 DEF Lent
  <2>8. Lent!3' /\ Lent!4'
    BY <1>0, <1>2, <1>4, <1>5 DEF Lent, Relvm
  <2> QED BY <2>4, <2>7, <2>8 DEF Lent
<1>f. Housed'
  <2>1. \A q \in Proc : Is(q, "STHREAD") => q # c /\ parent[q] \in Proc \ {c}
    BY <1>0, <1>7 DEF Placed, Kid
  <2>2. \A q \in Proc : Is(q, "SVFORK") => q # c /\ parent[q] \in Proc \ {c}
    BY <1>0, <1>7 DEF Lent, Borrows, Kid
  <2>3. space' = space /\ spaces' = spaces /\ ~Grown(c)
    BY <1>0, <1>3 DEF mem, Grown
  <2>4. Housed!1' /\ Housed!2'
    BY <1>4, <1>6, <2>3 DEF Housed
  <2>5. \A q \in Proc : pc'[q] \in Relvm \cup {"exit", "exit_last"} <=> pc[q] \in Relvm \cup {"exit", "exit_last"}
    BY <1>0, <1>2 DEF Relvm
  <2>6. \A q \in Proc : pc'[q] \in Relvm \cup {"exit_last"} <=> pc[q] \in Relvm \cup {"exit_last"}
    BY <1>0, <1>2 DEF Relvm
  <2>7. Housed!3'
    BY <1>1, <1>4, <1>6, <2>1, <2>2, <2>3, <2>6 DEF Housed
  <2>8. Housed!4'
    BY <1>0, <1>1, <1>2, <1>4, <2>1, <2>5 DEF Housed, Relvm
  <2> QED BY <2>4, <2>7, <2>8 DEF Housed
<1>g. Awaiting'
  <2>1. \A q \in Proc : stat'[q] = "SSLEEP" => q \notin {c, p} /\ stat[q] = "SSLEEP"
    BY <1>0, <1>1
  <2>2. \A q \in Proc : stat[q] # "none" => c \notin child[q]
    BY <1>0 DEF Linked, Kid
  <2>3. \A q \in Proc : pc[q] = "vfwait" => arg[q] \in Proc \ {c}
    BY <1>0 DEF Lent, Grown
  <2> QED BY <1>1, <1>2, <1>4, <2>1, <2>2, <2>3, ProcessAssumption DEF Awaiting, Is
<1> QED BY <1>a, <1>b, <1>c, <1>d, <1>e, <1>f, <1>g

LEMMA ProcdupHolds ==
  ASSUME IInv, NEW p \in Proc, Procdup(p)
  PROVE  IInv'
<1> USE DEF IInv
<1>0. PICK c \in Proc : /\ c = arg[p] /\ stat[c] = "SIDL" /\ parent[c] = p /\ c # p
                        /\ pc[c] = "user" /\ c # proc_init /\ chan[c] = None
                        /\ stat[p] = "SRUN" /\ pc[p] = "procdup" /\ ~Is(c, "SVFDONE")
  BY DEF Procdup, At, Duplicating, Placed, FirstPlaced, TypeOK, Lent, Relvm
<1>1. /\ \A q \in Proc \ {c} : stat'[q] = stat[q] /\ space'[q] = space[q]
      /\ stat'[c] = "SRUN"
      /\ \A q \in Proc \ {p} : pc'[q] = pc[q] /\ arg'[q] = arg[q]
      /\ pc'[p] = IF Is(c, "SVFORK") THEN "vfwait" ELSE "user"
      /\ arg'[p] = IF Is(c, "SVFORK") THEN c ELSE None
  BY <1>0 DEF Procdup, TypeOK
<1>2. UNCHANGED <<chan, flag, killed, wcode, parent, child, nextofkin, orphan>>
  BY DEF Procdup, tree
<1>3. space[p] # None /\ Grown(p) /\ space[p] \in spaces /\ ~Is(p, "STHREAD")
  BY <1>0 DEF Housed, Grown, Relvm, TypeOK, Placed
<1>4. \/ /\ Is(c, "SVFORK") \/ Is(c, "STHREAD")
         /\ space'[c] = space[p] /\ spaces' = spaces
      \/ /\ ~Is(c, "SVFORK") /\ ~Is(c, "STHREAD")
         /\ space'[c] \in Space \ spaces /\ spaces' = spaces \cup {space'[c]}
         /\ \A q \in Proc \ {c} : space[q] # space'[c]
  BY <1>0, FreshIs DEF Procdup, Is, TypeOK
<1>5. space'[c] # None
  BY <1>3, <1>4, ProcessAssumption DEF Space
<1>6. \A q \in Proc, f \in {"STHREAD", "SVFORK", "SVFDONE"} : Is(q, f)' <=> Is(q, f)
  BY <1>2 DEF Is
<1>7. Grown(c)' /\ ~Grown(c) /\ \A q \in Proc \ {c} : Grown(q)' <=> Grown(q)
  BY <1>0, <1>1 DEF Grown
<1>8. \A q \in Proc : Kid(q) => parent[q] \in Proc \ {c} /\ nextofkin[q] \in Proc \ {c}
  BY <1>0 DEF Linked, MayHaveKids, Grown
<1>a. TypeOK'
  <2>1. /\ stat' \in [Proc -> Stats] /\ pc' \in [Proc -> Places]
        /\ arg' \in [Proc -> Proc \cup {P_ALL, None}]
    BY <1>0 DEF Procdup, TypeOK, Stats, Places
  <2>2. space' \in [Proc -> Space \cup {None}] /\ spaces' \subseteq Space
    BY <1>0, <1>4, FreshIs DEF Procdup, TypeOK
  <2>3. \A q \in Proc : /\ stat'[q] = "SSLEEP" => chan'[q] # None
                        /\ chan'[q] # None => stat'[q] \in {"SSLEEP", "SSTOP"}
    BY <1>0, <1>1, <1>2 DEF TypeOK
  <2> QED BY <1>2, <2>1, <2>2, <2>3 DEF TypeOK
<1>b. Linked'
  BY <1>0, <1>1, <1>2, <1>6, <1>7, LinkedFrame DEF tree
<1>c. Placed' /\ FirstPlaced'
  <2>1. ASSUME NEW q \in Proc \ {p, c} PROVE Placed!(q)'
    BY <1>1, <1>2 DEF Placed, Is
  <2>2. Placed!(c)'
    BY <1>0, <1>1, <1>2, <1>6 DEF Placed
  <2>3. Placed!(p)'
    BY <1>0, <1>1, <1>2, <1>3, <1>6 DEF Placed
  <2>4. FirstPlaced'
    BY <1>0, <1>1, <1>2, ProcessAssumption DEF FirstPlaced
  <2> QED BY <2>1, <2>2, <2>3, <2>4 DEF Placed
<1>d. Duplicating'
  <2>1. \A d \in Proc : stat'[d] = "SIDL" => d # c /\ stat[d] = "SIDL" /\ parent[d] \in Proc \ {p}
    BY <1>0, <1>1, <1>8 DEF Duplicating, FirstPlaced, Kid
  <2>2. \A q \in Proc : pc'[q] = "procdup" => q # p /\ pc[q] = "procdup" /\ arg[q] # c
    BY <1>0, <1>1 DEF Duplicating
  <2>3. Duplicating!1'
    BY <1>1, <1>2, <2>2 DEF Duplicating
  <2>4. Duplicating!2'
    BY <1>1, <1>2, <2>1 DEF Duplicating
  <2> QED BY <2>3, <2>4 DEF Duplicating
<1>e. Lent'
  <2>1. \A q \in Proc : Borrows(q)' <=> Borrows(q)
    BY <1>0, <1>1, <1>6 DEF Borrows, Relvm
  <2>2. \A q \in Proc : Borrows(q) => parent[q] \in Proc /\ (parent[q] = p => q = c)
    BY <1>0 DEF Lent, Linked, Kid
  <2>3. Borrows(c) => Is(c, "SVFORK")
    BY <1>0 DEF Borrows, Relvm
  <2>4. Lent!1'
    BY <1>0, <1>1, <1>2, <2>1, <2>2, <2>3 DEF Lent
  <2>5. ASSUME NEW q \in Proc, pc'[q] = "vfwait" PROVE Lent!2!(q)'
    <3>1. CASE q = p
      BY <1>0, <1>1, <1>2, <1>7, <2>1, <2>5, <3>1 DEF Borrows
    <3>2. CASE q # p
      BY <1>0, <1>1, <1>2, <1>7, <2>1, <2>5, <3>2 DEF Lent
    <3> QED BY <3>1, <3>2
  <2>6. Lent!3' /\ Lent!4'
    BY <1>0, <1>1, <1>6 DEF Lent, Relvm
  <2> QED BY <2>4, <2>5, <2>6 DEF Lent
<1>f. Housed'
  <2>1. \A q \in Proc : Is(q, "STHREAD") \/ Is(q, "SVFORK") => parent[q] \in Proc \ {c}
    BY <1>8 DEF Placed, Lent, Borrows, Kid
  <2>2. \A s \in Space : s \in spaces' <=> \E q \in Proc : Grown(q)' /\ space'[q] = s
    BY <1>1, <1>3, <1>4, <1>7 DEF Housed
  <2>3. \A q \in Proc \ {c} : /\ Grown(q)' /\ space'[q] = space'[c]
                              /\ ~Is(q, "STHREAD")' /\ ~Is(c, "STHREAD")'
                              => Is(c, "SVFORK")'
    BY <1>1, <1>4, <1>6
  <2>4. Housed!2'
    BY <1>1, <1>6, <1>7, <2>3 DEF Housed
  <2>5. Housed!3'
    <3>1. ASSUME NEW q \in Proc \ {c} PROVE Housed!3!(q)'
      BY <1>0, <1>1, <1>2, <1>6, <1>7, <2>1 DEF Housed, Relvm
    <3>2. Housed!3!(c)'
      BY <1>0, <1>1, <1>2, <1>4, <1>5, <1>6 DEF Relvm
    <3> QED BY <3>1, <3>2
  <2>6. Housed!4'
    BY <1>0, <1>1, <1>2, <1>6, <2>1 DEF Housed, Relvm
  <2> QED BY <2>2, <2>4, <2>5, <2>6 DEF Housed
<1>g. Awaiting'
  <2>1. \A q \in Proc : stat'[q] = "SSLEEP" => q \notin {c, p} /\ stat[q] = "SSLEEP"
    BY <1>0, <1>1
  <2> QED BY <1>1, <1>2, <2>1 DEF Awaiting, Is
<1> QED BY <1>a, <1>b, <1>c, <1>d, <1>e, <1>f, <1>g

LEMMA ExitLastHolds ==
  ASSUME IInv, NEW p \in Proc, ExitLast(p)
  PROVE  IInv'
<1> USE DEF IInv
<1>0. /\ stat[p] = "SRUN" /\ pc[p] = "exit_last" /\ p # proc_init /\ Kid(p) /\ Grown(p) /\ chan[p] = None
      /\ ~Is(p, "SVFORK") /\ ~Is(p, "STHREAD") /\ ~Is(p, "SVFDONE") /\ space[p] = None /\ ~Borrows(p)
      /\ \A q \in Proc : q \in child[p] <=> Kid(q) /\ parent[q] = p
      /\ \A q \in Proc : q \in orphan[p] <=> Kid(q) /\ nextofkin[q] = p
      /\ child[p] \subseteq Proc /\ orphan[p] \subseteq Proc
  BY DEF ExitLast, At, FirstPlaced, Lent, Placed, Housed, Grown, Relvm, Kid, Linked, TypeOK, Borrows
<1>r. PICK r \in Proc : r = parent[p] /\ MayHaveKids(r)
  BY <1>0 DEF Linked
<1>k. PICK k \in Proc : k = nextofkin[p] /\ MayHaveKids(k)
  BY <1>0 DEF Linked
<1>n. /\ r # p /\ k # p
      /\ \A q \in Proc : Kid(q) => parent[q] # q /\ nextofkin[q] # q
  <2>1. ASSUME NEW q \in Proc, Kid(q) PROVE parent[q] # q /\ nextofkin[q] # q
    <3>1. {q} \in SUBSET Kids
      BY <2>1 DEF Kids
    <3> QED BY <3>1 DEF Linked, Forest
  <2> QED BY <1>0, <1>r, <1>k, <2>1
<1>q. \A q \in child[p] : /\ q # p /\ ~Borrows(q) /\ ~Is(q, "SVFORK") /\ ~Is(q, "STHREAD") /\ stat[q] # "SIDL"
                          /\ q # proc_init
  <2>1. \A q \in child[p] : q # p /\ q # proc_init
    BY <1>0, <1>n DEF Kid
  <2>2. \A q \in child[p] : ~Borrows(q) /\ ~Is(q, "SVFORK")
    BY <1>0 DEF Lent, Borrows
  <2>3. \A q \in child[p] : ~Is(q, "STHREAD") /\ stat[q] # "SIDL"
    BY <1>0 DEF Housed, Duplicating
  <2> QED BY <2>1, <2>2, <2>3
<1> DEFINE gone == IF Is(r, "SNOWAIT") THEN {p} ELSE {}
           C == Asleep(SigcldChannels(p))
           R == Roused(Traced(p))
<1>1. PICK g \in SUBSET {p} : g = gone
  OBVIOUS
<1>2. /\ parent' = Clear(Adopted(p), g, None) /\ nextofkin' = Clear(Inherited(p), g, None)
      /\ child' = [q \in Proc |-> (IF q = p THEN {}
                                   ELSE IF q = proc_init THEN child[q] \cup child[p] ELSE child[q]) \ g]
      /\ orphan' = [q \in Proc |-> (IF q = p THEN {}
                                    ELSE IF q = k THEN orphan[q] \cup orphan[p] ELSE orphan[q]) \ g]
      /\ wcode' = [Restarted(R) EXCEPT ![p] = IF g = {} THEN "exited" ELSE None]
      /\ flag' = Clear(flag, g, {})
      /\ pc' = [pc EXCEPT ![p] = "user"]
      /\ killed' = killed \cup Signalled(Traced(p))
      /\ SetRun([stat EXCEPT ![p] = IF g = {} THEN "SZOMB" ELSE "none"], C, R)
      /\ UNCHANGED <<arg, mem>>
  BY <1>1, <1>r, <1>k DEF ExitLast
<1>3. PICK V \in SUBSET Proc :
        /\ V = C \cup R /\ p \notin V /\ \A q \in V : Grown(q)
        /\ \A q \in Proc : chan[q] \in SigcldChannels(p) => q \in V
        /\ \A q \in C : stat[q] \in {"SSLEEP", "SSTOP"}
  <2>1. None \notin SigcldChannels(p)
    BY <1>0, <1>r, ProcessAssumption DEF SigcldChannels
  <2>2. \A q \in C : q \in Proc /\ Grown(q) /\ q # p /\ stat[q] \in {"SSLEEP", "SSTOP"}
    BY <1>0, <2>1 DEF Asleep, Grown, TypeOK
  <2>3. \A q \in R : q \in Proc /\ Grown(q) /\ q # p
    BY <1>0, <1>q DEF Roused, Signalled, Traced, Grown
  <2>4. \A q \in Proc : chan[q] \in SigcldChannels(p) => q \in C
    BY DEF Asleep
  <2> HIDE DEF C, R
  <2>5. C \cup R \in SUBSET Proc /\ p \notin C \cup R
    BY <2>2, <2>3
  <2>6. \A q \in C \cup R : Grown(q)
    BY <2>2, <2>3
  <2> QED BY <2>2, <2>4, <2>5, <2>6
<1> HIDE DEF gone, C, R
<1>4. /\ \A q \in Proc \ {p} : /\ q \in V => Woke(q)
                               /\ q \notin V => stat'[q] = stat[q] /\ chan'[q] = chan[q]
      /\ stat'[p] = (IF g = {} THEN "SZOMB" ELSE "none") /\ chan'[p] = None
      /\ stat' \in [Proc -> Stats] /\ chan' \in [Proc -> Proc \cup {WAITER, None}]
  <2>1. stat \in [Proc -> Stats] /\ chan \in [Proc -> Proc \cup {WAITER, None}]
    BY DEF TypeOK
  <2>2. /\ stat' = [q \in Proc |-> IF q \in R \cup {x \in C : stat[x] = "SSLEEP"} THEN "SRUN"
                      ELSE [stat EXCEPT ![p] = IF g = {} THEN "SZOMB" ELSE "none"][q]]
        /\ chan' = [q \in Proc |-> IF q \in V THEN None ELSE chan[q]]
    BY <1>2, <1>3 DEF SetRun, Running
  <2>3. \A q \in V : q \notin R /\ stat[q] # "SSLEEP" => stat[q] = "SSTOP"
    BY <1>3
  <2>4. \A q \in Proc \ {p} : stat'[q] = IF q \in R \cup {x \in C : stat[x] = "SSLEEP"}
                                         THEN "SRUN" ELSE stat[q]
    BY <2>1, <2>2
  <2>5. stat' \in [Proc -> Stats] /\ chan' \in [Proc -> Proc \cup {WAITER, None}]
    BY <2>1, <2>2 DEF Stats
  <2>6. \A q \in Proc \ {p} : q \in V => Woke(q)
    BY <1>3, <2>2, <2>3, <2>4 DEF Woke
  <2>7. \A q \in Proc \ {p} : q \notin V => stat'[q] = stat[q] /\ chan'[q] = chan[q]
    BY <1>3, <2>2, <2>4
  <2>8. stat'[p] = (IF g = {} THEN "SZOMB" ELSE "none") /\ chan'[p] = None
    BY <1>0, <1>3, <2>1, <2>2
  <2> QED BY <2>5, <2>6, <2>7, <2>8
<1>5. /\ \A q \in Proc \ {p} : pc'[q] = pc[q] /\ flag'[q] = flag[q]
                               /\ (wcode'[q] = wcode[q] \/ (wcode'[q] = None /\ stat[q] = "SSTOP"))
      /\ pc'[p] = "user" /\ wcode'[p] = (IF g = {} THEN "exited" ELSE None)
      /\ flag'[p] = (IF g = {} THEN flag[p] ELSE {})
      /\ UNCHANGED <<arg, space, spaces>>
  BY <1>2 DEF Clear, Restarted, TypeOK, mem
<1>6. \A q \in Proc : /\ q \in g => parent'[q] = None /\ nextofkin'[q] = None
                      /\ q \notin g => /\ parent'[q] = IF q \in child[p] THEN proc_init ELSE parent[q]
                                       /\ nextofkin'[q] = IF q \in orphan[p] THEN k ELSE nextofkin[q]
  BY <1>2, <1>k DEF Clear, Adopted, Inherited
<1>7. /\ \A q \in Proc \ {p}, f \in {"STHREAD", "SVFORK", "SVFDONE"} : Is(q, f)' <=> Is(q, f)
      /\ \A f \in {"STHREAD", "SVFORK", "SVFDONE"} : ~Is(p, f)'
  BY <1>0, <1>5 DEF Is
<1>8. ~Grown(p)' /\ \A q \in Proc \ {p} : Grown(q)' <=> Grown(q)
  BY <1>3, <1>4 DEF Grown, Woke
<1>9. \A q \in Proc : stat'[q] = "none" <=> stat[q] = "none" \/ q \in g
  BY <1>0, <1>3, <1>4 DEF Grown, Woke
<1>a. TypeOK'
  <2>1. /\ parent' \in [Proc -> Proc \cup {None}] /\ nextofkin' \in [Proc -> Proc \cup {None}]
    BY <1>2, <1>k, ProcessAssumption DEF Clear, Adopted, Inherited, TypeOK
  <2>2. child' \in [Proc -> SUBSET Proc] /\ orphan' \in [Proc -> SUBSET Proc]
    BY <1>2 DEF TypeOK
  <2>3. /\ wcode' \in [Proc -> {"exited", "trapped", None}] /\ pc' \in [Proc -> Places]
        /\ flag' \in [Proc -> SUBSET {"STHREAD", "SVFORK", "SVFDONE", "SNOWAIT", "STRC"}]
    BY <1>2 DEF TypeOK, Places, Clear, Restarted
  <2>4. killed' \subseteq Proc
    BY <1>0, <1>2 DEF TypeOK, Signalled, Traced
  <2>5. \A q \in Proc : /\ stat'[q] = "SSLEEP" => chan'[q] # None
                        /\ chan'[q] # None => stat'[q] \in {"SSLEEP", "SSTOP"}
    BY <1>3, <1>4 DEF TypeOK, Woke
  <2> QED BY <1>4, <1>5, <2>1, <2>2, <2>3, <2>4, <2>5 DEF TypeOK
<1>b. Linked'
  <2>1. /\ Kids' = Kids \ g /\ p \in Kids /\ proc_init \notin Kids
        /\ \A q \in Proc : Kid(q)' <=> Kid(q) /\ q \notin g
        /\ Kids \subseteq Proc
    BY <1>0, <1>9 DEF Kids, Kid
  <2>2. Forest(parent, Kids)'
    <3>1. \A q \in Kids : Adopted(p)[q] = IF parent[q] = p THEN proc_init ELSE parent[q]
      BY <1>0 DEF Adopted, Kids
    <3>2. Forest(Adopted(p), Kids)
      <4>1. Forest(parent, Kids)
        BY DEF Linked
      <4> HIDE DEF IInv
      <4> QED BY ONLY <2>1, <3>1, <4>1, ForestAdopt
    <3>3. \A q \in Kids' : parent'[q] = Adopted(p)[q]
      BY <1>6, <2>1 DEF Adopted
    <3>4. Forest(parent', Kids')
      BY <2>1, <3>2, <3>3, ForestSub
    <3> QED BY <3>4 DEF Forest
  <2>3. Forest(nextofkin, Kids)'
    <3>1. \A q \in Kids : Inherited(p)[q] = IF nextofkin[q] = p THEN nextofkin[p] ELSE nextofkin[q]
      BY <1>0 DEF Inherited, Kids
    <3>2. Forest(Inherited(p), Kids)
      BY <2>1, <3>1, ForestInherit DEF Linked
    <3>3. \A q \in Kids' : nextofkin'[q] = Inherited(p)[q]
      BY <1>6, <1>k, <2>1 DEF Inherited
    <3>4. Forest(nextofkin', Kids')
      BY <2>1, <3>2, <3>3, ForestSub
    <3> QED BY <3>4 DEF Forest
  <2>4. \A q \in Proc \ {p} : MayHaveKids(q) => MayHaveKids(q)'
    BY <1>7, <1>8 DEF MayHaveKids
  <2>5. MayHaveKids(proc_init)' /\ MayHaveKids(k)'
    <3>1. MayHaveKids(proc_init) /\ proc_init # p
      BY <1>0 DEF FirstPlaced, MayHaveKids, Grown, Is
    <3>2. \A q : q = k => MayHaveKids(q)'
      BY <1>k, <1>n, <2>4
    <3> QED BY <2>4, <3>1, <3>2, ProcessAssumption
  <2>6. ASSUME NEW q \in Proc, Kid(q)'
        PROVE  /\ parent'[q] \in Proc \ {p} /\ nextofkin'[q] \in Proc \ {p}
               /\ parent'[q] = proc_init \/ (MayHaveKids(parent[q]) /\ parent'[q] = parent[q])
               /\ nextofkin'[q] = k \/ (MayHaveKids(nextofkin[q]) /\ nextofkin'[q] = nextofkin[q])
    BY <1>0, <1>6, <1>k, <1>n, <2>1, <2>6, ProcessAssumption DEF Linked
  <2>7. Linked!1'
    BY <2>4, <2>5, <2>6 DEF Linked
  <2>8. ASSUME NEW x \in Proc, stat'[x] # "none", NEW q \in Proc
        PROVE  /\ q \in child'[x] <=> Kid(q)' /\ parent'[q] = x
               /\ q \in orphan'[x] <=> Kid(q)' /\ nextofkin'[q] = x
    <3>1. CASE x = p
      <4>1. child'[x] = {} /\ orphan'[x] = {}
        BY <1>2, <3>1
      <4> QED BY <2>6, <3>1, <4>1
    <3>2. CASE x # p
      <4>1. stat[x] # "none"
        BY <1>9, <2>8
      <4>2. /\ q \in child[x] <=> Kid(q) /\ parent[q] = x
            /\ q \in orphan[x] <=> Kid(q) /\ nextofkin[q] = x
        BY <4>1 DEF Linked
      <4>3. /\ q \in child'[x] <=> (q \in child[x] \/ (x = proc_init /\ q \in child[p])) /\ q \notin g
            /\ q \in orphan'[x] <=> (q \in orphan[x] \/ (x = k /\ q \in orphan[p])) /\ q \notin g
        BY <1>2, <3>2
      <4>4. /\ q \in child[p] <=> Kid(q) /\ parent[q] = p
            /\ q \in orphan[p] <=> Kid(q) /\ nextofkin[q] = p
        BY <1>0
      <4> QED BY <1>6, <2>1, <3>2, <4>2, <4>3, <4>4
    <3> QED BY <3>1, <3>2
  <2> QED BY <2>2, <2>3, <2>7, <2>8 DEF Linked
<1>c. Placed' /\ FirstPlaced'
  <2>1. ASSUME NEW q \in Proc \ {p} PROVE Placed!(q)'
    BY <1>3, <1>4, <1>5, ProcessAssumption DEF Placed, Is, Grown, Woke
  <2>2. Placed!(p)'
    BY <1>4, <1>5, <1>7, ProcessAssumption
  <2>3. FirstPlaced'
    BY <1>0, <1>4, <1>5, ProcessAssumption DEF FirstPlaced, Woke
  <2> QED BY <2>1, <2>2, <2>3 DEF Placed
<1>d. Duplicating'
  <2>1. \A d \in Proc : stat'[d] = "SIDL" <=> stat[d] = "SIDL"
    BY <1>0, <1>3, <1>4 DEF Grown, Woke
  <2>2. \A d \in Proc : stat[d] = "SIDL" => d # p /\ parent'[d] = parent[d] /\ parent[d] \in Proc
    BY <1>0, <1>6, <1>q DEF Linked, Kid, FirstPlaced
  <2>3. \A q \in Proc : pc'[q] = "procdup" <=> pc[q] = "procdup"
    BY <1>0, <1>5
  <2>4. arg' = arg
    BY <1>5
  <2> QED BY <2>1, <2>2, <2>3, <2>4 DEF Duplicating
<1>e. Lent'
  <2>1. \A q \in Proc : Borrows(q)' <=> Borrows(q)
    BY <1>0, <1>5, <1>7 DEF Borrows, Relvm
  <2>2. \A q \in Proc : Borrows(q) =>
           q # p /\ parent'[q] = parent[q] /\ parent[q] \in Proc \ {p}
    <3>1. \A q \in Proc : Borrows(q) => q # p /\ Kid(q) /\ q \notin child[p]
      BY <1>0, <1>q DEF Lent, Kid
    <3> QED BY <1>0, <1>6, <3>1 DEF Linked
  <2>3. \A q \in Proc \ {p} : stat[q] \notin {"none", "SZOMB"} => stat'[q] \notin {"none", "SZOMB"}
    BY <1>4 DEF Woke
  <2>4. arg' = arg
    BY <1>5
  <2>5. Lent!1'
    BY <1>5, <2>1, <2>2, <2>3, <2>4 DEF Lent
  <2>6. ASSUME NEW q \in Proc, pc'[q] = "vfwait" PROVE Lent!2!(q)'
    <3>1. pc[q] = "vfwait"
      BY <1>5, <2>6
    <3>2. arg[q] \in Proc /\ Grown(arg[q]) /\ parent[arg[q]] = q /\ Borrows(arg[q])
      BY <3>1 DEF Lent
    <3> QED BY <1>8, <2>1, <2>2, <2>4, <3>2
  <2>7. Lent!3' /\ Lent!4'
    BY <1>5, <1>7 DEF Lent
  <2> QED BY <2>5, <2>6, <2>7 DEF Lent
<1>f. Housed'
  <2>1. \A q \in Proc \ {p} : Is(q, "STHREAD") \/ Is(q, "SVFORK") =>
           parent[q] \in Proc \ {p} /\ parent'[q] = parent[q]
    <3>1. \A q \in Proc \ {p} : Is(q, "STHREAD") \/ Is(q, "SVFORK") => Kid(q) /\ q \notin child[p]
      BY <1>q DEF Placed, Lent, Borrows, Kid
    <3> QED BY <1>0, <1>6, <3>1 DEF Linked
  <2>2. space' = space /\ spaces' = spaces
    BY <1>5
  <2>3. \A s \in Space : s \in spaces' <=> \E q \in Proc : Grown(q)' /\ space'[q] = s
    BY <1>0, <1>8, <2>2, ProcessAssumption DEF Housed, Space
  <2>4. Housed!2'
    BY <1>7, <1>8, <2>2 DEF Housed
  <2>5. Housed!3'
    BY <1>5, <1>7, <1>8, <2>1, <2>2 DEF Housed
  <2>6. Housed!4'
    BY <1>5, <1>7, <2>1 DEF Housed
  <2> QED BY <2>3, <2>4, <2>5, <2>6 DEF Housed
<1>g. Awaiting'
  <2>1. \A q \in Proc : stat'[q] = "SSLEEP" =>
           q # p /\ stat[q] = "SSLEEP" /\ q \notin V /\ chan[q] \notin SigcldChannels(p)
    BY <1>3, <1>4 DEF Woke
  <2>2. arg' = arg
    BY <1>5
  <2>3. {p, r} \subseteq SigcldChannels(p)
    BY <1>r DEF SigcldChannels
  <2>4. \A c \in child[p] : wcode[c] = "exited" => {c, proc_init} \subseteq SigcldChannels(p)
    BY DEF SigcldChannels
  <2>5. ASSUME NEW q \in Proc, stat'[q] = "SSLEEP", pc'[q] = "waitid",
               NEW c \in Proc, c \in child'[q], ~Is(c, "STHREAD")', arg'[q] \in {P_ALL, c}
        PROVE  wcode'[c] # "exited"
    <3>1. q # p /\ stat[q] = "SSLEEP" /\ pc[q] = "waitid" /\ chan[q] \in {q, c} /\ arg[q] \in {P_ALL, c}
      BY <1>5, <2>1, <2>2, <2>5 DEF Placed
    <3>2. CASE c = p
      <4>1. Kid(p)' /\ parent'[p] = q
        BY <1>b, <2>5, <3>2 DEF Linked
      <4>2. q = r
        BY <1>0, <1>6, <1>n, <1>q, <1>r, <4>1, ProcessAssumption
      <4> QED BY <2>1, <2>3, <2>5, <3>1, <3>2, <4>2
    <3>3. CASE c # p /\ c \in child[q]
      BY <1>5, <1>7, <2>5, <3>1, <3>3, ProcessAssumption DEF Awaiting
    <3>4. CASE c # p /\ c \notin child[q]
      <4>1. q = proc_init /\ c \in child[p]
        BY <1>2, <2>5, <3>1, <3>4
      <4> QED BY <1>5, <2>1, <2>4, <2>5, <3>1, <3>4, <4>1, ProcessAssumption
    <3> QED BY <3>2, <3>3, <3>4
  <2>6. ASSUME NEW q \in Proc, stat'[q] = "SSLEEP", pc'[q] = "exit_threads"
        PROVE  \E x \in Proc : x \in child'[q] /\ Is(x, "STHREAD")'
    <3>1. q # p /\ stat[q] = "SSLEEP" /\ pc[q] = "exit_threads"
      BY <1>5, <2>1, <2>6
    <3>2. PICK x \in Proc : x \in child[q] /\ Is(x, "STHREAD")
      BY <3>1 DEF Awaiting
    <3>3. x # p /\ x \in child'[q]
      BY <1>0, <1>2, <3>1, <3>2
    <3> QED BY <1>7, <3>2, <3>3
  <2>7. ASSUME NEW q \in Proc, stat'[q] = "SSLEEP"
        PROVE  /\ pc'[q] = "vfwait" => Is(arg[q], "SVFORK")'
               /\ pc'[q] \in Relvm => ~Is(q, "SVFDONE")'
    <3>1. q # p /\ stat[q] = "SSLEEP" /\ pc'[q] = pc[q]
      BY <1>5, <2>1, <2>7
    <3>2. /\ pc[q] = "vfwait" => Is(arg[q], "SVFORK") /\ arg[q] \in Proc \ {p}
          /\ pc[q] \in Relvm => ~Is(q, "SVFDONE")
      BY <1>0, <3>1 DEF Awaiting, Lent
    <3> QED BY <1>7, <2>2, <3>1, <3>2 DEF Is
  <2> QED BY <2>2, <2>5, <2>6, <2>7 DEF Awaiting
<1> QED BY <1>a, <1>b, <1>c, <1>d, <1>e, <1>f, <1>g

-----------------------------------------------------------------------------
(* The theorems.                                                           *)

LEMMA InitHolds == Init => IInv
<1> SUFFICES ASSUME Init PROVE IInv
  OBVIOUS
<1> USE ProcessAssumption DEF Init
<1>1. TypeOK
  BY DEF TypeOK, Stats, Places, Space
<1>2. Linked
  BY DEF Linked, Kids, Kid, Forest
<1>3. Placed /\ FirstPlaced
  BY DEF Placed, FirstPlaced, Is, Relvm
<1>4. Duplicating /\ Lent /\ Awaiting
  BY DEF Duplicating, Lent, Borrows, Awaiting, Is, Relvm
<1>5. Housed
  <2>1. \A p \in Proc : Grown(p) <=> p = proc_init
    BY DEF Grown
  <2>2. proc_init \in Space /\ space[proc_init] = proc_init /\ proc_init # None
    BY DEF Space
  <2>3. \A s \in Space : s \in spaces <=> \E p \in Proc : Grown(p) /\ space[p] = s
    BY <2>1, <2>2
  <2>4. \A p \in Proc : pc[p] = "user" /\ \A f : ~Is(p, f)
    BY DEF Is
  <2>5. Housed!2
    BY ONLY <2>1
  <2>6. Housed!3
    BY ONLY <2>1, <2>2, <2>4 DEF Relvm
  <2>7. Housed!4
    BY ONLY <2>4
  <2> QED BY ONLY <2>3, <2>5, <2>6, <2>7 DEF Housed
<1> QED BY <1>1, <1>2, <1>3, <1>4, <1>5 DEF IInv

LEMMA NextHolds == Plain /\ IInv /\ [Next]_vars => IInv'
<1> SUFFICES ASSUME Plain, IInv, [Next]_vars PROVE IInv'
  OBVIOUS
<1>1. CASE UNCHANGED vars
  <2>1. UNCHANGED <<stat, pc, chan, flag, killed, wcode, parent, child, nextofkin, orphan, arg, space, spaces>>
    BY <1>1 DEF vars, tree, mem
  <2>2. Linked'
    BY <2>1, LinkedFrame DEF IInv, tree, Grown, Is
  <2>3. TypeOK' /\ Placed' /\ FirstPlaced' /\ Duplicating' /\ Awaiting'
    BY <2>1 DEF IInv, TypeOK, Placed, FirstPlaced, Duplicating, Awaiting, Is
  <2>4. Lent' /\ Housed'
    BY <2>1 DEF IInv, Lent, Borrows, Housed, Grown, Is
  <2> QED BY <2>2, <2>3, <2>4 DEF IInv
<1>2. ASSUME NEW p \in Proc, Step(p) PROVE IInv'
  BY <1>2, ProcdupHolds, ProcdupFailsHolds, vfwaitHolds, RelvmWaitHolds, exit_threadsHolds,
     ExitRelvmHolds, ExitLastHolds, thread_exit_currentHolds, WaitReapsHolds,
     WaitTrappedHolds, WaitFailsHolds, WaitSleepsHolds DEF Step
<1>3. ASSUME NEW p \in Proc, Call(p) PROVE IInv'
  BY <1>3, newprocHolds, execHolds, WaitBeginHolds, setsigactHolds, ptraceHolds, TracedStopHolds,
     FutexHolds DEF Call
<1>4. ASSUME NEW p \in Proc, exit(p) \/ kill(p) \/ FutexReturns(p) PROVE IInv'
  BY <1>4, exitHolds, killHolds, FutexHolds
<1> QED BY <1>1, <1>2, <1>3, <1>4 DEF Next

LEMMA Invariant == ASSUME Plain PROVE Spec => []IInv
<1>1. IInv /\ [Next]_vars => IInv'
  BY NextHolds
<1> QED BY <1>1, InitHolds, PTL DEF Spec

(***************************************************************************)
(* For any number of processes every variable has its type, as long as     *)
(* threads create nothing and a process that execs has none.               *)
(***************************************************************************)
THEOREM TypeCorrect == ASSUME Plain PROVE Spec => []TypeOK
<1>1. IInv => TypeOK
  BY DEF IInv
<1> QED BY <1>1, Invariant, PTL

(***************************************************************************)
(* newproc(), exit(), freeproc() and segu_release() leave no pointer of    *)
(* the tree dangling: parents and next of kin are alive and list exactly   *)
(* their own, whatever forks, exits and is reaped in whatever order.       *)
(***************************************************************************)
THEOREM TreeKept == ASSUME Plain PROVE Spec => []TreeSound
<1>1. IInv => TreeSound
  <2> SUFFICES ASSUME IInv PROVE TreeSound
    OBVIOUS
  <2>1. \A q \in InUse \ {proc_init} : parent[q] \in Alive /\ nextofkin[q] \in Alive
    BY DEF IInv, Linked, Kid, InUse, Alive, MayHaveKids, Grown
  <2>2. ASSUME NEW p \in InUse
        PROVE  /\ child[p] = {q \in InUse \ {proc_init} : parent[q] = p}
               /\ orphan[p] = {q \in InUse \ {proc_init} : nextofkin[q] = p}
    <3>1. p \in Proc /\ stat[p] # "none" /\ child[p] \subseteq Proc /\ orphan[p] \subseteq Proc
      BY DEF InUse, IInv, TypeOK
    <3>2. \A q \in Proc : /\ q \in child[p] <=> Kid(q) /\ parent[q] = p
                          /\ q \in orphan[p] <=> Kid(q) /\ nextofkin[q] = p
      BY <3>1 DEF IInv, Linked
    <3>3. \A q : q \in InUse \ {proc_init} <=> q \in Proc /\ Kid(q)
      BY DEF InUse, Kid
    <3> QED BY <3>1, <3>2, <3>3
  <2> QED BY <2>1, <2>2 DEF TreeSound
<1> QED BY <1>1, Invariant, PTL

(***************************************************************************)
(* relvm() frees an address space when, and only when, the last process in *)
(* it leaves: not while a thread or a vfork child is there.                *)
(***************************************************************************)
THEOREM SpacesKept == ASSUME Plain PROVE Spec => []SpacesSound
<1>1. IInv => SpacesSound
  <2> SUFFICES ASSUME IInv PROVE SpacesSound
    OBVIOUS
  <2>1. \A p : p \in Inhabitants <=> p \in Proc /\ Grown(p) /\ space[p] # None
    BY DEF Inhabitants, Alive, InUse, Grown, IInv, TypeOK, Stats
  <2>2. spaces = {space[p] : p \in Inhabitants}
    <3>1. \A p \in Inhabitants : space[p] \in spaces
      BY <2>1 DEF IInv, TypeOK, Housed
    <3>2. \A s \in spaces : \E p \in Inhabitants : space[p] = s
      BY <2>1, ProcessAssumption DEF IInv, TypeOK, Housed, Space
    <3> QED BY <3>1, <3>2
  <2>3. ASSUME NEW p \in Inhabitants, NEW q \in Inhabitants,
               p # q, space[p] = space[q], ~Is(p, "STHREAD"), ~Is(q, "STHREAD")
        PROVE  \E c \in {p, q} : Is(c, "SVFORK")
    BY <2>1, <2>3 DEF IInv, Housed
  <2> QED BY <2>2, <2>3 DEF SpacesSound
<1> QED BY <1>1, Invariant, PTL

(***************************************************************************)
(* While a vfork child is in the address space of its parent, and until    *)
(* the parent has seen it go, the parent is in newproc() or vfwait().      *)
(***************************************************************************)
THEOREM VforkKept == ASSUME Plain PROVE Spec => []VforkHeld
<1>1. IInv => VforkHeld
  BY DEF IInv, VforkHeld, Alive, InUse, Lent, Borrows, Relvm, Linked, Kid, MayHaveKids, Grown
<1> QED BY <1>1, Invariant, PTL

(***************************************************************************)
(* No wakeup is lost between waitid(), exit(), thread_exit, vfwait() and   *)
(* relvm(): whoever sleeps there still has something to wait for.          *)
(***************************************************************************)
THEOREM WakeupsKept == ASSUME Plain PROVE Spec => []NoLostWait
<1>1. IInv => NoLostWait
  <2> SUFFICES ASSUME IInv, NEW p \in Proc, stat[p] = "SSLEEP", pc[p] # "futex"
               PROVE  NoLostWait!(p)!2
    BY DEF NoLostWait
  <2>1. pc[p] \in {"waitid", "exit_threads", "vfwait", "relvm_exit", "relvm_exec"}
    BY DEF IInv, Placed, Relvm
  <2>2. pc[p] = "waitid" => \A c \in Matching(p, arg[p]) : wcode[c] # "exited"
    BY DEF IInv, Awaiting, Matching, TypeOK
  <2>3. pc[p] = "exit_threads" => Threads(p) # {}
    BY DEF IInv, Awaiting, Threads
  <2>4. pc[p] = "vfwait" => Is(arg[p], "SVFORK")
    BY DEF IInv, Awaiting
  <2>5. pc[p] \in {"relvm_exit", "relvm_exec"} => ~Is(p, "SVFDONE")
    BY DEF IInv, Awaiting, Relvm
  <2> QED BY <2>1, <2>2, <2>3, <2>4, <2>5
<1> QED BY <1>1, Invariant, PTL

(***************************************************************************)
(* The assertion of freeproc(): whoever is freed is on the list of its     *)
(* parent and on the list of its next of kin.                              *)
(***************************************************************************)
THEOREM FreedAreListed == ASSUME Plain PROVE Spec => FreeprocUnlinks
<1> DEFINE Listed == \A q \in Proc : Reaped(q) => q \in child[parent[q]] /\ q \in orphan[nextofkin[q]]
<1>1. IInv /\ [Next]_vars => [Listed]_vars
  <2> SUFFICES ASSUME IInv, [Next]_vars, NEW q \in Proc, Reaped(q)
               PROVE  q \in child[parent[q]] /\ q \in orphan[nextofkin[q]]
    OBVIOUS
  <2>1. q # proc_init
    BY NextHolds DEF IInv, FirstPlaced, Reaped
  <2> QED BY <2>1 DEF IInv, Linked, Kid, MayHaveKids, Grown, Reaped
<1> QED BY <1>1, Invariant, PTL DEF Spec, FreeprocUnlinks

=============================================================================
